---- MODULE Spec2Model ----
(***************************************************************************)
(* Model of nifty_oi_monitor.py: the persisted baseline (SessionState and  *)
(* the per-strike ledger), one scan() run as one atomic step on it, the    *)
(* conviction scorer and the daily signal limiter.                         *)
(*                                                                         *)
(* Percentages and ratios that the program holds as floats are held here   *)
(* as exact fractions <<numerator, denominator>> with a positive           *)
(* denominator, and every comparison is made by cross multiplication.      *)
(***************************************************************************)
EXTENDS Integers, Sequences, FiniteSets, TLC

VARIABLES
    file,        \* content of BASELINE_FILE (the persisted SessionState)
    day,         \* calendar day of now_ist()
    clock,       \* number of scan() runs started on this calendar day
    out,         \* what the last scan() run did (observation only)
    sentScores,  \* scores of all signals recorded on file.date (observation only)
    probe,       \* input and result of a pure function under test
    feed         \* which bounded market-data feed the provider plays

vars == <<file, day, clock, out, sentScores, probe, feed>>

-----------------------------------------------------------------------------
(* CONFIG *)

OI_WATCH_THRESHOLD == 300
OI_EXEC_THRESHOLD == 500
MIN_BASE_OI == 1000
STRIKE_RANGE_POINTS == 100
OI_BOTH_SIDES_AVOID == 250
PREMIUM_MAX_RISE == 8
MIN_DECLINE_PCT == <<-3, 2>>
MIN_CUMULATIVE_DECLINE_PCT == -10
MAX_SIGNALS_PER_DAY == 3
MAX_WATCH_PER_DAY == 3
SCORE_IMPROVEMENT_THRESHOLD == 10

Modes == {"STRICT", "BALANCED", "AGGRESSIVE"}

CONVICTION_THRESHOLDS(mode) ==
    CASE mode = "STRICT" -> 110
      [] mode = "BALANCED" -> 90
      [] mode = "AGGRESSIVE" -> 70
      [] OTHER -> 90

\* Python's None, for the integer-valued fields that may hold it.
None == -1

-----------------------------------------------------------------------------
(* Exact fractions *)

Abs(x) == IF x < 0 THEN -x ELSE x

\* Body applied to the value of e.  The value is computed once, however often
\* Body uses it: each intermediate result of a run is named this way.
Bind(e, Body(_)) == CHOOSE r \in {Body(v) : v \in {e}} : TRUE

Int2Rat(c) == <<c, 1>>
RatLE(p, q) == p[1] * q[2] <= q[1] * p[2]
RatLT(p, q) == p[1] * q[2] < q[1] * p[2]
RatGE(p, q) == RatLE(q, p)
RatGT(p, q) == RatLT(q, p)
RatAbs(p) == <<Abs(p[1]), p[2]>>
RatMin(p, q) == IF RatLE(p, q) THEN p ELSE q

RECURSIVE Gcd(_, _)
Gcd(a, b) == IF b = 0 THEN a ELSE Gcd(b, a % b)

\* n / d in lowest terms (d > 0), which keeps the cross products small.
Ratio(n, d) ==
    Bind(Gcd(Abs(n), d), LAMBDA g : <<n \div g, d \div g>>)

\* ((x - base) / base) * 100
PctChange(x, base) == Ratio((x - base) * 100, base)

-----------------------------------------------------------------------------
(* CONVICTION SCORING *)

Opts == {"CE", "PE"}
OppOpt(opt) == IF opt = "CE" THEN "PE" ELSE "CE"

\* strike_oi_changes.get(strike, {}).get(opt, 0); the map is held as a
\* function on the <<opt, strike>> pairs that have an entry.
OiChange(strike_oi_changes, strike, opt) ==
    IF <<opt, strike>> \in DOMAIN strike_oi_changes
    THEN strike_oi_changes[<<opt, strike>>]
    ELSE Int2Rat(0)

calculate_buildup_time(entry, current_time) ==
    IF entry.first_exec_time # None
    THEN IF current_time - entry.first_exec_time > 0
         THEN current_time - entry.first_exec_time ELSE 0
    ELSE 0

check_adjacent_cluster(strike, opt, strike_oi_changes, exec_threshold) ==
    LET offsets == {-100, -50, 50, 100}
        same == {o \in offsets :
                    RatGE(OiChange(strike_oi_changes, strike + o, opt),
                          <<exec_threshold * 7, 10>>)}
        opp  == {o \in offsets :
                    RatLT(OiChange(strike_oi_changes, strike + o, OppOpt(opt)),
                          Int2Rat(-5))}
    IN  <<Cardinality(same), Cardinality(opp)>>

StrikeQualityPts(strike, atm) ==
    LET strike_distance == Abs(strike - atm)
    IN  IF strike_distance <= 25 THEN 30
        ELSE IF strike_distance <= 50 THEN 20
        ELSE IF strike_distance <= 75 THEN 10
        ELSE 0

VolumePts(vol_multiplier) ==
    IF RatGE(vol_multiplier, Int2Rat(3)) THEN 20
    ELSE IF RatGE(vol_multiplier, Int2Rat(2)) THEN 10
    ELSE IF RatGE(vol_multiplier, <<3, 2>>) THEN 5
    ELSE 0

VelocityPts(buildup_time_mins) ==
    IF buildup_time_mins <= 30 THEN 25
    ELSE IF buildup_time_mins <= 60 THEN 15
    ELSE IF buildup_time_mins <= 120 THEN 5
    ELSE 0

DeclinePts(opp_decline_pct) ==
    LET opp_decline_abs == RatAbs(opp_decline_pct)
    IN  IF RatGE(opp_decline_abs, Int2Rat(10)) THEN 25
        ELSE IF RatGE(opp_decline_abs, Int2Rat(5)) THEN 15
        ELSE IF RatGE(opp_decline_abs, <<3, 2>>) THEN 5
        ELSE 0

DeclineStreakPts(decline_streak) ==
    IF decline_streak >= 3 THEN 20
    ELSE IF decline_streak >= 2 THEN 10
    ELSE 0

\* "if day_open:" is false for None and for 0.
SpotPts(opt, day_open, spot) ==
    IF day_open # None /\ day_open # 0
    THEN Bind(PctChange(spot, day_open), LAMBDA spot_move_pct :
            IF opt = "CE"
            THEN IF RatLE(spot_move_pct, <<-3, 10>>) THEN 20
                 ELSE IF RatLT(spot_move_pct, Int2Rat(0)) THEN 10
                 ELSE -20
            ELSE IF RatGE(spot_move_pct, <<3, 10>>) THEN 20
                 ELSE IF RatGT(spot_move_pct, Int2Rat(0)) THEN 10
                 ELSE -20)
    ELSE 0

SustainabilityPts(scan_count) ==
    IF scan_count >= 3 THEN 15
    ELSE IF scan_count >= 2 THEN 10
    ELSE 0

ClusterPts(strike, opt, strike_oi_changes, exec_threshold) ==
    Bind(check_adjacent_cluster(strike, opt, strike_oi_changes, exec_threshold),
         LAMBDA adj :
            IF adj[1] >= 3 \/ adj[2] >= 2 THEN 20
            ELSE IF adj[1] >= 2 \/ adj[2] >= 1 THEN 10
            ELSE 0)

\* PremiumBehaviorPts with a harsher penalty for a high rise.
PremiumBehaviorPtsHarsh(ltp_change_pct) ==
    IF RatLE(ltp_change_pct, Int2Rat(-5)) THEN 15
    ELSE IF RatLE(ltp_change_pct, Int2Rat(0)) THEN 10
    ELSE IF RatLE(ltp_change_pct, Int2Rat(5)) THEN 5
    ELSE IF RatLE(ltp_change_pct, Int2Rat(PREMIUM_MAX_RISE)) THEN 0
    ELSE -20

PremiumBehaviorPts(ltp_change_pct) ==
    IF RatLE(ltp_change_pct, Int2Rat(-5)) THEN 15
    ELSE IF RatLE(ltp_change_pct, Int2Rat(0)) THEN 10
    ELSE IF RatLE(ltp_change_pct, Int2Rat(5)) THEN 5
    ELSE IF RatLE(ltp_change_pct, Int2Rat(PREMIUM_MAX_RISE)) THEN 0
    ELSE -10

Tier(score) ==
    IF score >= 120 THEN "PREMIUM"
    ELSE IF score >= 90 THEN "HIGH"
    ELSE IF score >= 60 THEN "MEDIUM"
    ELSE "LOW"

ComponentNames ==
    {"strike_quality_pts", "volume_pts", "velocity_pts", "decline_pts",
     "decline_streak_pts", "spot_pts", "sustainability_pts", "cluster_pts",
     "premium_behavior_pts"}

Components(buildup_data, atm, day_open, spot, strike_oi_changes) ==
    [strike_quality_pts   |-> StrikeQualityPts(buildup_data.strike, atm),
     volume_pts           |-> VolumePts(buildup_data.vol_multiplier),
     velocity_pts         |-> VelocityPts(buildup_data.buildup_time_mins),
     decline_pts          |-> DeclinePts(buildup_data.opp_decline_pct),
     decline_streak_pts   |-> DeclineStreakPts(buildup_data.decline_streak),
     spot_pts             |-> SpotPts(buildup_data.opt_type, day_open, spot),
     sustainability_pts   |-> SustainabilityPts(buildup_data.scan_count),
     cluster_pts          |-> ClusterPts(buildup_data.strike, buildup_data.opt_type,
                                         strike_oi_changes, buildup_data.exec_threshold),
     premium_behavior_pts |-> PremiumBehaviorPts(buildup_data.ltp_change_pct)]

TotalScore(c) ==
    c.strike_quality_pts + c.volume_pts + c.velocity_pts + c.decline_pts
    + c.decline_streak_pts + c.spot_pts + c.sustainability_pts + c.cluster_pts
    + c.premium_behavior_pts

calculate_conviction_score(buildup_data, atm, day_open, spot, strike_oi_changes) ==
    Bind(Components(buildup_data, atm, day_open, spot, strike_oi_changes),
         LAMBDA components :
            Bind(TotalScore(components), LAMBDA score :
                [score |-> score, tier |-> Tier(score), components |-> components]))

-----------------------------------------------------------------------------
(* BASELINE *)

EmptyData == [k \in {} |-> None]

create_empty_baseline ==
    [date             |-> None,
     data             |-> EmptyData,
     first_alert_sent |-> FALSE,
     day_open         |-> None,
     signals_today    |-> 0,
     watch_today      |-> 0,
     daily_signals    |-> <<>>]

\* reset_on_new_day that forgets to clear the signals of the day before.
ResetKeepingSignals(b, today) ==
    IF b.date # today
    THEN [baseline |-> [b EXCEPT !.date = today,
                                 !.data = EmptyData,
                                 !.first_alert_sent = FALSE,
                                 !.day_open = None,
                                 !.watch_today = 0],
          saved |-> TRUE]
    ELSE [baseline |-> b, saved |-> FALSE]

\* Returns the baseline and whether save_baseline was called.
reset_on_new_day(b, today) ==
    IF b.date # today
    THEN [baseline |-> [b EXCEPT !.date = today,
                                 !.data = EmptyData,
                                 !.first_alert_sent = FALSE,
                                 !.day_open = None,
                                 !.signals_today = 0,
                                 !.watch_today = 0,
                                 !.daily_signals = <<>>],
          saved |-> TRUE]
    ELSE [baseline |-> b, saved |-> FALSE]

\* `if field not in d: d[field] = value`.  A record read back from the file
\* is a function of the fields it holds.
SetDefault(d, field, value) ==
    IF field \in DOMAIN d THEN d ELSE d @@ (field :> value)

\* MigrateEntry without the defaults of state and prev_oi.
MigrateEntryCountersOnly(entry) ==
    Bind(SetDefault(entry, "first_exec_time", None), LAMBDA e2 :
    Bind(SetDefault(e2, "scan_count", 0), LAMBDA e3 :
        SetDefault(e3, "decline_streak", 0)))

\* Entry-level fields.
MigrateEntry(entry) ==
    Bind(SetDefault(entry, "state", "NONE"), LAMBDA e1 :
    Bind(SetDefault(e1, "first_exec_time", None), LAMBDA e2 :
    Bind(SetDefault(e2, "scan_count", 0), LAMBDA e3 :
    Bind(SetDefault(e3, "prev_oi",
                    IF "baseline_oi" \in DOMAIN e3 THEN e3.baseline_oi ELSE 0),
         LAMBDA e4 :
        SetDefault(e4, "decline_streak", 0)))))

\* Root-level fields.
MigrateRoot(b) ==
    Bind(SetDefault(b, "day_open", None), LAMBDA b1 :
    Bind(SetDefault(b1, "signals_today", 0), LAMBDA b2 :
    Bind(SetDefault(b2, "watch_today", 0), LAMBDA b3 :
        SetDefault(b3, "daily_signals", <<>>))))

\* Returns the baseline and whether save_baseline was called.
migrate_baseline_if_needed(b) ==
    Bind(MigrateRoot(b), LAMBDA root :
    Bind(IF "data" \in DOMAIN root
         THEN [root EXCEPT !.data = [k \in DOMAIN root.data |-> MigrateEntry(root.data[k])]]
         ELSE root,
         LAMBDA migrated : [baseline |-> migrated, saved |-> migrated # b]))

-----------------------------------------------------------------------------
(* DAILY SIGNAL MANAGEMENT *)

\* min(s["score"] for s in signals), signals not empty
MinScore(signals) ==
    CHOOSE m \in {signals[i].score : i \in DOMAIN signals} :
        \A i \in DOMAIN signals : m <= signals[i].score

\* should_send_signal letting a score that only equals the bar through.
ShouldSendAtBar(baseline, new_signal_score) ==
    IF baseline.signals_today < MAX_SIGNALS_PER_DAY
    THEN [send |-> TRUE, reason |-> "UNDER_LIMIT"]
    ELSE IF baseline.daily_signals = <<>>
    THEN [send |-> TRUE, reason |-> "FIRST_SIGNAL"]
    ELSE IF new_signal_score >= MinScore(baseline.daily_signals) + SCORE_IMPROVEMENT_THRESHOLD
    THEN [send |-> TRUE, reason |-> "REPLACES_LOWER"]
    ELSE [send |-> FALSE, reason |-> "REJECTED"]

should_send_signal(baseline, new_signal_score) ==
    IF baseline.signals_today < MAX_SIGNALS_PER_DAY
    THEN [send |-> TRUE, reason |-> "UNDER_LIMIT"]
    ELSE IF baseline.daily_signals = <<>>
    THEN [send |-> TRUE, reason |-> "FIRST_SIGNAL"]
    ELSE IF new_signal_score > MinScore(baseline.daily_signals) + SCORE_IMPROVEMENT_THRESHOLD
    THEN [send |-> TRUE, reason |-> "REPLACES_LOWER"]
    ELSE [send |-> FALSE, reason |-> "REJECTED"]

\* sorted(xs, key=score, reverse=True): a stable sort, so records of equal
\* score keep the order they had in xs.
\* The place xs[i] takes: after every record of higher score, and after the
\* records of equal score that stand before it in xs.
RankByScore(xs, i) ==
    1 + Cardinality({j \in DOMAIN xs :
                        \/ xs[j].score > xs[i].score
                        \/ xs[j].score = xs[i].score /\ j < i})

SortByScoreDesc(xs) ==
    [p \in DOMAIN xs |-> xs[CHOOSE i \in DOMAIN xs : RankByScore(xs, i) = p]]

Take(xs, n) == SubSeq(xs, 1, IF Len(xs) < n THEN Len(xs) ELSE n)

\* record_signal truncating without sorting first.
RecordSignalUnsorted(baseline, signal_data, now) ==
    [baseline EXCEPT
        !.signals_today = baseline.signals_today + 1,
        !.daily_signals =
            Take(Append(baseline.daily_signals,
                        [time     |-> now,
                         strike   |-> signal_data.strike,
                         opt_type |-> signal_data.opt_type,
                         score    |-> signal_data.conviction_score,
                         tier     |-> signal_data.tier]),
                 MAX_SIGNALS_PER_DAY)]

record_signal(baseline, signal_data, now) ==
    LET signal_record == [time     |-> now,
                          strike   |-> signal_data.strike,
                          opt_type |-> signal_data.opt_type,
                          score    |-> signal_data.conviction_score,
                          tier     |-> signal_data.tier]
    IN  Bind(Append(baseline.daily_signals, signal_record), LAMBDA daily_signals :
        Bind(SortByScoreDesc(daily_signals), LAMBDA sorted :
            [baseline EXCEPT
                !.signals_today = baseline.signals_today + 1,
                !.daily_signals = Take(sorted, MAX_SIGNALS_PER_DAY)]))

-----------------------------------------------------------------------------
(* MAIN SCAN *)

\* int(round(spot / 50) * 50): Python rounds a half to the even neighbour.
Atm(spot) ==
    LET q == spot \div 50
        r == spot % 50
    IN  IF r < 25 THEN q * 50
        ELSE IF r > 25 THEN (q + 1) * 50
        ELSE IF q % 2 = 0 THEN q * 50 ELSE (q + 1) * 50

\* MinConvictionScore asking 100 on expiry day as on the day before.
MinConvictionScoreNoExpiryDay(days_to_expiry, mode) ==
    IF days_to_expiry >= 2 THEN CONVICTION_THRESHOLDS(mode) ELSE 100

\* Dynamic conviction requirement based on days to expiry.
MinConvictionScore(days_to_expiry, mode) ==
    IF days_to_expiry >= 4 THEN CONVICTION_THRESHOLDS(mode)
    ELSE IF days_to_expiry >= 2 THEN CONVICTION_THRESHOLDS(mode)
    ELSE IF days_to_expiry = 1 THEN 100
    ELSE 120

\* Dynamic premium tolerance based on the spot move since day open.
PremiumTolerance(day_open, spot) ==
    Bind(IF day_open # None /\ day_open # 0
         THEN RatAbs(PctChange(spot, day_open)) ELSE Int2Rat(0),
         LAMBDA abs_spot_move :
            IF RatGE(abs_spot_move, <<1, 2>>) THEN 15
            ELSE IF RatGE(abs_spot_move, <<3, 10>>) THEN 10
            ELSE PREMIUM_MAX_RISE)

Key(r) == <<r.option_type, r.strike>>

\* df after the strike-range filter, in the provider's row order.
FilterRows(raw, atm) ==
    SelectSeq(raw, LAMBDA r : r.strike >= atm - STRIKE_RANGE_POINTS
                              /\ r.strike <= atm + STRIKE_RANGE_POINTS)

RowKeys(df) == {Key(df[i]) : i \in DOMAIN df}

\* The last row of a key is the one a dict assignment keeps.
LastRow(df, k) ==
    df[CHOOSE i \in DOMAIN df :
          Key(df[i]) = k /\ \A j \in DOMAIN df : Key(df[j]) = k => j <= i]

\* current_oi_map of the pre-compute loop.
CurrentOiMap(df) == [k \in RowKeys(df) |-> LastRow(df, k).oi]

\* strike_oi_changes of the pre-compute loop: only entries that exist before
\* the main loop and have baseline_oi >= MIN_BASE_OI get a percentage.
StrikeOiChanges(df, data) ==
    [k \in {k \in RowKeys(df) :
               k \in DOMAIN data /\ data[k].baseline_oi >= MIN_BASE_OI} |->
        IF data[k].baseline_oi > 0
        THEN PctChange(LastRow(df, k).oi, data[k].baseline_oi)
        ELSE Int2Rat(0)]

NewEntry(r) ==
    [baseline_oi     |-> r.oi,
     baseline_ltp    |-> r.ltp,
     baseline_vol    |-> r.vol,
     prev_oi         |-> r.oi,
     state           |-> "NONE",
     first_exec_time |-> None,
     scan_count      |-> 0,
     decline_streak  |-> 0]

\* Conflicted with the bar at twice OI_EXEC_THRESHOLD.
ConflictedFarAbove(strike_oi_changes, strike) ==
    /\ RatGE(OiChange(strike_oi_changes, strike, "CE"), Int2Rat(2 * OI_EXEC_THRESHOLD))
    /\ RatGE(OiChange(strike_oi_changes, strike, "PE"), Int2Rat(2 * OI_EXEC_THRESHOLD))

Conflicted(strike_oi_changes, strike) ==
    /\ RatGE(OiChange(strike_oi_changes, strike, "CE"), Int2Rat(OI_BOTH_SIDES_AVOID))
    /\ RatGE(OiChange(strike_oi_changes, strike, "PE"), Int2Rat(OI_BOTH_SIDES_AVOID))

\* send_telegram_alert letting the failure of the request escape to the caller.
SendAlertOrRaise(acc) ==
    IF acc.notify_ok THEN [acc EXCEPT !.delivered = @ + 1]
    ELSE [acc EXCEPT !.raised = TRUE]

\* send_telegram_alert(): the request is posted inside try/except, a failure
\* is printed and swallowed.  `delivered` counts the messages that got out.
send_telegram_alert(acc) ==
    IF acc.notify_ok THEN [acc EXCEPT !.delivered = @ + 1] ELSE acc

\* WatchNotified without the daily cap.
WatchNotifiedNoCap(acc, r, ctx) ==
    LET conflicted == Conflicted(ctx.strike_oi_changes, r.strike)
        too_far_otm == Abs(r.strike - ctx.atm) > 100
    IN  ~conflicted /\ ~too_far_otm

\* The three gates of the WATCH notification.
WatchNotified(acc, r, ctx) ==
    LET conflicted == Conflicted(ctx.strike_oi_changes, r.strike)
        too_far_otm == Abs(r.strike - ctx.atm) > 100
        watch_limit_hit == acc.baseline.watch_today >= MAX_WATCH_PER_DAY
    IN  ~conflicted /\ ~too_far_otm /\ ~watch_limit_hit

\* WatchStep without the `state == "NONE"` condition.
WatchStepAnyState(acc, r, ctx, oi_pct, state) ==
    IF RatGE(oi_pct, Int2Rat(OI_WATCH_THRESHOLD))
    THEN [acc EXCEPT !.baseline.data[Key(r)].state = "WATCH",
                     !.updated = TRUE]
    ELSE acc

\* WatchStep moving to WATCH only when the notification goes out.
WatchStepGated(acc, r, ctx, oi_pct, state) ==
    IF RatGE(oi_pct, Int2Rat(OI_WATCH_THRESHOLD)) /\ state = "NONE"
       /\ WatchNotified(acc, r, ctx)
    THEN Bind(send_telegram_alert(acc), LAMBDA a :
            [a EXCEPT !.baseline.watch_today = @ + 1,
                      !.watch = @ \cup {Key(r)},
                      !.baseline.data[Key(r)].state = "WATCH",
                      !.updated = TRUE])
    ELSE acc

\* WATCH (WITH FILTERS): the notification is gated, the state change is not.
\* `state` is the entry's state as read at the top of the iteration.
WatchStep(acc, r, ctx, oi_pct, state) ==
    IF RatGE(oi_pct, Int2Rat(OI_WATCH_THRESHOLD)) /\ state = "NONE"
    THEN Bind(WatchNotified(acc, r, ctx), LAMBDA notify :
         Bind(IF notify THEN send_telegram_alert(acc) ELSE acc, LAMBDA a :
            [a EXCEPT
                !.baseline.watch_today = IF notify THEN @ + 1 ELSE @,
                !.watch = IF notify THEN @ \cup {Key(r)} ELSE @,
                !.baseline.data[Key(r)].state = "WATCH",
                !.updated = TRUE]))
    ELSE acc

\* StreakStep keeping the count when the OI falls back below the threshold.
StreakStepNoClear(acc, r, ctx, oi_pct) ==
    IF RatGE(oi_pct, Int2Rat(OI_EXEC_THRESHOLD))
    THEN IF acc.baseline.data[Key(r)].first_exec_time = None
         THEN [acc EXCEPT !.baseline.data[Key(r)].first_exec_time = ctx.current_time,
                          !.baseline.data[Key(r)].scan_count = 1,
                          !.updated = TRUE]
         ELSE [acc EXCEPT !.baseline.data[Key(r)].scan_count = @ + 1,
                          !.updated = TRUE]
    ELSE acc

\* Track buildup time and scan count.
StreakStep(acc, r, ctx, oi_pct) ==
    IF RatGE(oi_pct, Int2Rat(OI_EXEC_THRESHOLD))
    THEN IF acc.baseline.data[Key(r)].first_exec_time = None
         THEN [acc EXCEPT !.baseline.data[Key(r)].first_exec_time = ctx.current_time,
                          !.baseline.data[Key(r)].scan_count = 1,
                          !.updated = TRUE]
         ELSE [acc EXCEPT !.baseline.data[Key(r)].scan_count = @ + 1,
                          !.updated = TRUE]
    ELSE IF acc.baseline.data[Key(r)].first_exec_time # None
         THEN [acc EXCEPT !.baseline.data[Key(r)].first_exec_time = None,
                          !.baseline.data[Key(r)].scan_count = 0,
                          !.updated = TRUE]
         ELSE acc

\* CoveringCheck measuring the scan-to-scan decline from the baseline OI.
CoveringCheckFromBaseline(opp_entry, opp_current_oi) ==
    Bind(PctChange(opp_current_oi, opp_entry.baseline_oi), LAMBDA pct :
        [opp_prev_oi |-> opp_entry.baseline_oi,
         is_covering |-> RatLE(pct, MIN_DECLINE_PCT),
         opp_decline_for_scoring |-> pct])

\* DUAL DECLINE CHECK: scan-to-scan and cumulative decline of the opposite side.
CoveringCheck(opp_entry, opp_current_oi) ==
    Bind([opp_prev_oi |-> opp_entry.prev_oi,
          opp_decline_pct |->
              IF opp_entry.prev_oi > 0
              THEN PctChange(opp_current_oi, opp_entry.prev_oi) ELSE Int2Rat(0),
          opp_cumulative_decline_pct |->
              IF opp_entry.baseline_oi > 0
              THEN PctChange(opp_current_oi, opp_entry.baseline_oi) ELSE Int2Rat(0)],
         LAMBDA d :
            LET scan_to_scan_covering ==
                    /\ opp_current_oi < d.opp_prev_oi
                    /\ RatLE(d.opp_decline_pct, MIN_DECLINE_PCT)
                already_unwound ==
                    RatLE(d.opp_cumulative_decline_pct,
                          Int2Rat(MIN_CUMULATIVE_DECLINE_PCT))
            IN  [opp_prev_oi |-> d.opp_prev_oi,
                 is_covering |-> scan_to_scan_covering \/ already_unwound,
                 opp_decline_for_scoring |->
                     RatMin(d.opp_decline_pct, d.opp_cumulative_decline_pct)])

\* ScoreStep setting the entry to EXECUTED whatever the score.
ScoreStepAnyScore(acc, r, ctx, m, cov) ==
    Bind([strike            |-> r.strike,
          opt_type          |-> r.option_type,
          oi_pct            |-> m.oi_pct,
          ltp_change_pct    |-> m.ltp_change_pct,
          vol_multiplier    |-> m.vol_multiplier,
          opp_decline_pct   |-> cov.opp_decline_for_scoring,
          decline_streak    |->
              acc.baseline.data[<<OppOpt(r.option_type), r.strike>>].decline_streak,
          buildup_time_mins |->
              calculate_buildup_time(acc.baseline.data[Key(r)], ctx.current_time),
          scan_count        |-> acc.baseline.data[Key(r)].scan_count,
          exec_threshold    |-> OI_EXEC_THRESHOLD,
          days_to_expiry    |-> ctx.days_to_expiry],
         LAMBDA buildup_data :
    Bind(calculate_conviction_score(buildup_data, ctx.atm, acc.baseline.day_open,
                                    ctx.spot, ctx.strike_oi_changes),
         LAMBDA scored :
            [acc EXCEPT !.scored = @ @@ (Key(r) :> scored.score),
                        !.baseline.data[Key(r)].state = "EXECUTED"]))

\* Score one covered candidate; at or above the minimum it is collected and
\* its entry becomes EXECUTED.  `acc` already holds the raised decline streak.
ScoreStep(acc, r, ctx, m, cov) ==
    Bind([strike            |-> r.strike,
          opt_type          |-> r.option_type,
          oi_pct            |-> m.oi_pct,
          ltp_change_pct    |-> m.ltp_change_pct,
          vol_multiplier    |-> m.vol_multiplier,
          opp_decline_pct   |-> cov.opp_decline_for_scoring,
          decline_streak    |->
              acc.baseline.data[<<OppOpt(r.option_type), r.strike>>].decline_streak,
          buildup_time_mins |->
              calculate_buildup_time(acc.baseline.data[Key(r)], ctx.current_time),
          scan_count        |-> acc.baseline.data[Key(r)].scan_count,
          exec_threshold    |-> OI_EXEC_THRESHOLD,
          days_to_expiry    |-> ctx.days_to_expiry],
         LAMBDA buildup_data :
    Bind(calculate_conviction_score(buildup_data, ctx.atm, acc.baseline.day_open,
                                    ctx.spot, ctx.strike_oi_changes),
         LAMBDA scored :
    Bind([strike |-> r.strike, opt_type |-> r.option_type,
          conviction_score |-> scored.score, score |-> scored.score,
          tier |-> scored.tier],
         LAMBDA signal :
            IF scored.score < ctx.MIN_CONVICTION_SCORE
            THEN [acc EXCEPT !.scored = @ @@ (Key(r) :> scored.score)]
            ELSE [acc EXCEPT
                    !.scored = @ @@ (Key(r) :> scored.score),
                    !.ce_buildups =
                        IF r.option_type = "CE" THEN Append(@, signal) ELSE @,
                    !.pe_buildups =
                        IF r.option_type = "CE" THEN @ ELSE Append(@, signal),
                    !.baseline.data[Key(r)].state = "EXECUTED"])))

\* CoveringStep leaving the streak as it is when covering is not confirmed.
CoveringStepNoReset(acc, r, ctx, m) ==
    LET key == Key(r)
        opp_key == <<OppOpt(r.option_type), r.strike>>
        opp_current_oi == IF opp_key \in DOMAIN ctx.current_oi_map
                          THEN ctx.current_oi_map[opp_key] ELSE 0
    IN  IF opp_key \notin DOMAIN acc.baseline.data THEN acc
        ELSE IF opp_current_oi = 0 THEN acc
        ELSE Bind(CoveringCheck(acc.baseline.data[opp_key], opp_current_oi),
                  LAMBDA cov :
                IF ~cov.is_covering
                THEN [acc EXCEPT !.updated = TRUE,
                                 !.opp_prev = @ @@ (key :> cov.opp_prev_oi),
                                 !.covering = @ @@ (key :> FALSE)]
                ELSE Bind([acc EXCEPT !.baseline.data[opp_key].decline_streak = @ + 1,
                                      !.updated = TRUE,
                                      !.opp_prev = @ @@ (key :> cov.opp_prev_oi),
                                      !.covering = @ @@ (key :> TRUE)],
                          LAMBDA a1 : ScoreStep(a1, r, ctx, m, cov)))

\* The covering gate of one candidate that passed the conflict gate.
CoveringStep(acc, r, ctx, m) ==
    LET key == Key(r)
        opp_key == <<OppOpt(r.option_type), r.strike>>
        opp_current_oi == IF opp_key \in DOMAIN ctx.current_oi_map
                          THEN ctx.current_oi_map[opp_key] ELSE 0
    IN  IF opp_key \notin DOMAIN acc.baseline.data THEN acc
        ELSE IF opp_current_oi = 0 THEN acc
        ELSE Bind(CoveringCheck(acc.baseline.data[opp_key], opp_current_oi),
                  LAMBDA cov :
                IF ~cov.is_covering
                THEN [acc EXCEPT !.baseline.data[opp_key].decline_streak = 0,
                                 !.updated = TRUE,
                                 !.opp_prev = @ @@ (key :> cov.opp_prev_oi),
                                 !.covering = @ @@ (key :> FALSE)]
                ELSE Bind([acc EXCEPT !.baseline.data[opp_key].decline_streak = @ + 1,
                                      !.updated = TRUE,
                                      !.opp_prev = @ @@ (key :> cov.opp_prev_oi),
                                      !.covering = @ @@ (key :> TRUE)],
                          LAMBDA a1 : ScoreStep(a1, r, ctx, m, cov)))

\* ExecStep without the conflict gate.
ExecStepNoConflictGate(acc, r, ctx, m) ==
    LET is_aggressive_writing ==
            /\ RatGE(m.oi_pct, Int2Rat(OI_EXEC_THRESHOLD))
            /\ RatLE(m.ltp_change_pct, Int2Rat(ctx.PREMIUM_TOLERANCE))
    IN  IF ~is_aggressive_writing THEN acc
        ELSE Bind([acc EXCEPT !.candidates = @ \cup {Key(r)}],
                  LAMBDA a1 : CoveringStep(a1, r, ctx, m))

\* EXECUTION: candidacy and the conflict gate.
ExecStep(acc, r, ctx, m) ==
    LET is_aggressive_writing ==
            /\ RatGE(m.oi_pct, Int2Rat(OI_EXEC_THRESHOLD))
            /\ RatLE(m.ltp_change_pct, Int2Rat(ctx.PREMIUM_TOLERANCE))
    IN  IF ~is_aggressive_writing THEN acc
        ELSE IF Conflicted(ctx.strike_oi_changes, r.strike)
        THEN [acc EXCEPT !.candidates = @ \cup {Key(r)}]
        ELSE Bind([acc EXCEPT !.candidates = @ \cup {Key(r)}],
                  LAMBDA a1 : CoveringStep(a1, r, ctx, m))

\* oi_pct, ltp_change_pct and vol_multiplier of a row against its entry.
Measure(entry, r) ==
    [oi_pct         |-> PctChange(r.oi, entry.baseline_oi),
     ltp_change_pct |-> IF entry.baseline_ltp > 0
                        THEN PctChange(r.ltp, entry.baseline_ltp) ELSE Int2Rat(0),
     vol_multiplier |-> IF entry.baseline_vol > 0
                        THEN Ratio(r.vol, entry.baseline_vol) ELSE Int2Rat(1)]

\* ProcessRow without the `state == "EXECUTED"` skip.
ProcessRowNoSkip(acc, r, ctx) ==
    IF Key(r) \notin DOMAIN acc.baseline.data
    THEN [acc EXCEPT !.baseline.data = @ @@ (Key(r) :> NewEntry(r)),
                     !.created = @ \cup {Key(r)},
                     !.updated = TRUE]
    ELSE IF acc.baseline.data[Key(r)].baseline_oi < MIN_BASE_OI THEN acc
    ELSE Bind(Measure(acc.baseline.data[Key(r)], r), LAMBDA m :
         Bind(WatchStep(acc, r, ctx, m.oi_pct, acc.baseline.data[Key(r)].state),
              LAMBDA a1 :
         Bind(StreakStep(a1, r, ctx, m.oi_pct), LAMBDA a2 :
            ExecStep(a2, r, ctx, m))))

\* ProcessRow without the MIN_BASE_OI floor.
ProcessRowNoFloor(acc, r, ctx) ==
    IF Key(r) \notin DOMAIN acc.baseline.data
    THEN [acc EXCEPT !.baseline.data = @ @@ (Key(r) :> NewEntry(r)),
                     !.created = @ \cup {Key(r)},
                     !.updated = TRUE]
    ELSE LET state == acc.baseline.data[Key(r)].state
         IN  Bind(Measure(acc.baseline.data[Key(r)], r), LAMBDA m :
             Bind(WatchStep(acc, r, ctx, m.oi_pct, state), LAMBDA a1 :
             Bind(StreakStep(a1, r, ctx, m.oi_pct), LAMBDA a2 :
                IF state = "EXECUTED" THEN a2 ELSE ExecStep(a2, r, ctx, m))))

\* One iteration of the main processing loop.
ProcessRow(acc, r, ctx) ==
    IF Key(r) \notin DOMAIN acc.baseline.data
    THEN [acc EXCEPT !.baseline.data = @ @@ (Key(r) :> NewEntry(r)),
                     !.created = @ \cup {Key(r)},
                     !.updated = TRUE]
    ELSE IF acc.baseline.data[Key(r)].baseline_oi < MIN_BASE_OI THEN acc
    ELSE LET state == acc.baseline.data[Key(r)].state
         IN  Bind(Measure(acc.baseline.data[Key(r)], r), LAMBDA m :
             Bind(WatchStep(acc, r, ctx, m.oi_pct, state), LAMBDA a1 :
             Bind(StreakStep(a1, r, ctx, m.oi_pct), LAMBDA a2 :
                IF state = "EXECUTED" THEN a2 ELSE ExecStep(a2, r, ctx, m))))

\* int(r.oi), float(r.ltp), int(r.volume): a field that does not parse is
\* carried as None, and parsing it raises.
Parses(x) == x # None

\* The top of an iteration: the three conversions, not guarded by any try.
ParseRow(acc, r, ctx) ==
    IF Parses(r.oi) /\ Parses(r.ltp) /\ Parses(r.vol)
    THEN ProcessRow(acc, r, ctx)
    ELSE [acc EXCEPT !.raised = TRUE]

\* The main processing loop; an exception leaves it at once.
RECURSIVE MainLoop(_, _, _, _)
MainLoop(acc, df, ctx, i) ==
    IF i > Len(df) \/ acc.raised THEN acc
    ELSE Bind(ParseRow(acc, df[i], ctx), LAMBDA a : MainLoop(a, df, ctx, i + 1))

\* SetPrevOi re-anchoring the baseline OI as well.
SetPrevOiRebase(acc, r) ==
    IF Key(r) \in DOMAIN acc.baseline.data
    THEN [acc EXCEPT !.baseline.data[Key(r)].prev_oi = r.oi,
                     !.baseline.data[Key(r)].baseline_oi = r.oi,
                     !.updated = TRUE]
    ELSE acc

\* One iteration of the prev_oi loop.
SetPrevOi(acc, r) ==
    IF Key(r) \in DOMAIN acc.baseline.data
    THEN [acc EXCEPT !.baseline.data[Key(r)].prev_oi = r.oi,
                     !.updated = TRUE]
    ELSE acc

\* Update prev_oi for all entries.
RECURSIVE UpdatePrevOi(_, _, _)
UpdatePrevOi(acc, df, i) ==
    IF i > Len(df) THEN acc
    ELSE Bind(SetPrevOi(acc, df[i]), LAMBDA a : UpdatePrevOi(a, df, i + 1))

SignalKey(s) == <<s.opt_type, s.strike>>

\* AllBuildupsSorted without the sort across the two sides.
AllBuildupsBySide(ce_buildups, pe_buildups) ==
    SortByScoreDesc(ce_buildups) \o SortByScoreDesc(pe_buildups)

\* all_buildups_sorted: each side sorted, concatenated, then sorted again.
AllBuildupsSorted(ce_buildups, pe_buildups) ==
    Bind(SortByScoreDesc(ce_buildups) \o SortByScoreDesc(pe_buildups),
         LAMBDA all_buildups : SortByScoreDesc(all_buildups))

\* OfferSignal putting a skipped candidate back to WATCH.
OfferSignalReleasing(acc, buildup, now) ==
    IF should_send_signal(acc.baseline, buildup.conviction_score).send
    THEN Bind(send_telegram_alert(acc), LAMBDA a :
            [a EXCEPT !.baseline = record_signal(a.baseline, buildup, now),
                      !.sent = Append(@, SignalKey(buildup)),
                      !.updated = TRUE])
    ELSE [acc EXCEPT !.skipped = Append(@, SignalKey(buildup)),
                     !.baseline.data[SignalKey(buildup)].state = "WATCH"]

\* One iteration of the alert loop: the limiter decides, a send is recorded.
OfferSignal(acc, buildup, now) ==
    IF should_send_signal(acc.baseline, buildup.conviction_score).send
    THEN Bind(send_telegram_alert(acc), LAMBDA a :
            IF a.raised THEN a
            ELSE [a EXCEPT !.baseline = record_signal(a.baseline, buildup, now),
                           !.sent = Append(@, SignalKey(buildup)),
                           !.updated = TRUE])
    ELSE [acc EXCEPT !.skipped = Append(@, SignalKey(buildup))]

RECURSIVE SendAlerts(_, _, _, _)
SendAlerts(acc, buildups, now, i) ==
    IF i > Len(buildups) \/ acc.raised THEN acc
    ELSE Bind(OfferSignal(acc, buildups[i], now),
              LAMBDA a : SendAlerts(a, buildups, now, i + 1))

\* The inputs of a run that never started.
NoRun ==
    [market_open |-> FALSE, ping_ok |-> FALSE, trading_window |-> FALSE,
     spot |-> None, chain_ok |-> FALSE, chain |-> <<>>,
     days_to_expiry |-> None, mode |-> "BALANCED", notify_ok |-> FALSE]

\* What a scan() run that stopped at `stage` did, before anything else is known.
IdleOut(stage) ==
    [stage      |-> stage,
     inp        |-> NoRun,
     reset      |-> FALSE,
     saved      |-> FALSE,
     delivered  |-> 0,
     rows       |-> <<>>,
     created    |-> {},
     watch      |-> {},
     candidates |-> {},
     opp_prev   |-> EmptyData,
     covering   |-> EmptyData,
     scored     |-> EmptyData,
     buildups   |-> <<>>,
     sent       |-> <<>>,
     skipped    |-> <<>>,
     min_score  |-> None,
     tolerance  |-> None]

Context(b, now, inp, atm, df) ==
    [atm                  |-> atm,
     spot                 |-> inp.spot,
     current_time         |-> now,
     days_to_expiry       |-> inp.days_to_expiry,
     MIN_CONVICTION_SCORE |-> MinConvictionScore(inp.days_to_expiry, inp.mode),
     PREMIUM_TOLERANCE    |-> PremiumTolerance(b.day_open, inp.spot),
     strike_oi_changes    |-> StrikeOiChanges(df, b.data),
     current_oi_map       |-> CurrentOiMap(df)]

StartAcc(b) ==
    [baseline    |-> b,
     updated     |-> FALSE,
     raised      |-> FALSE,
     notify_ok   |-> TRUE,
     delivered   |-> 0,
     ce_buildups |-> <<>>,
     pe_buildups |-> <<>>,
     created     |-> {},
     watch       |-> {},
     candidates  |-> {},
     opp_prev    |-> EmptyData,
     covering    |-> EmptyData,
     scored      |-> EmptyData,
     sent        |-> <<>>,
     skipped     |-> <<>>]

\* The pre-compute loop converts the OI of every row before the main loop
\* starts.
PreComputeParses(df) == \A i \in DOMAIN df : Parses(df[i].oi)

\* The three loops that follow the pre-compute loop: main processing,
\* prev_oi, alerts.  Each of the last two is reached only if nothing raised.
RunLoops(acc0, df, ctx, now) ==
    Bind(MainLoop(acc0, df, ctx, 1), LAMBDA acc1 :
    Bind(IF acc1.raised THEN acc1 ELSE UpdatePrevOi(acc1, df, 1), LAMBDA acc2 :
    Bind(AllBuildupsSorted(acc2.ce_buildups, acc2.pe_buildups),
         LAMBDA all_buildups_sorted :
    Bind(SendAlerts(acc2, all_buildups_sorted, now, 1), LAMBDA acc3 :
        [acc |-> acc3, all_buildups_sorted |-> all_buildups_sorted]))))

\* The loops of scan(): pre-compute, main processing, prev_oi, alerts.  The
\* run saves at its end whenever a loop changed anything; an exception
\* leaves scan() before that save, so the file stays as the loops found it.
Classify(b, now, inp, atm) ==
    Bind(FilterRows(inp.chain, atm), LAMBDA df :
        IF ~PreComputeParses(df)
        THEN [baseline |-> b,
              out |-> [IdleOut("raised") EXCEPT !.rows = df]]
        ELSE
    Bind(Context(b, now, inp, atm, df), LAMBDA ctx :
    Bind([StartAcc(b) EXCEPT !.notify_ok = inp.notify_ok], LAMBDA acc0 :
    Bind(RunLoops(acc0, df, ctx, now), LAMBDA loops :
    Bind(loops.acc, LAMBDA acc3 :
        [baseline |-> IF acc3.raised THEN b ELSE acc3.baseline,
         out      |-> [stage      |-> IF acc3.raised THEN "raised" ELSE "done",
                       inp        |-> NoRun,
                       reset      |-> FALSE,
                       saved      |-> ~acc3.raised /\ acc3.updated,
                       delivered  |-> acc3.delivered,
                       rows       |-> df,
                       created    |-> acc3.created,
                       watch      |-> acc3.watch,
                       candidates |-> acc3.candidates,
                       opp_prev   |-> acc3.opp_prev,
                       covering   |-> acc3.covering,
                       scored     |-> acc3.scored,
                       buildups   |-> [i \in DOMAIN loops.all_buildups_sorted |->
                                          SignalKey(loops.all_buildups_sorted[i])],
                       sent       |-> acc3.sent,
                       skipped    |-> acc3.skipped,
                       min_score  |-> ctx.MIN_CONVICTION_SCORE,
                       tolerance  |-> ctx.PREMIUM_TOLERANCE]])))))

\* CaptureDayOpen taking the spot of every run.
CaptureDayOpenAlways(b, spot) == [b EXCEPT !.day_open = spot]

\* Capture day open: the first spot of the day, saved at once.
CaptureDayOpen(b, spot) ==
    IF b.day_open = None THEN [b EXCEPT !.day_open = spot] ELSE b

\* scan(): the persisted baseline after the run and what the run did.  Every
\* change made before the loops is saved at once (the reset, the migration,
\* the startup ping flag, the day open), so the baseline at each early return
\* is the persisted one.  get_nifty_spot() and fetch_option_chain() report
\* their failure and raise again, which ends the run.
scan(b0, today, now, inp) ==
    Bind(reset_on_new_day(b0, today), LAMBDA r :
    Bind(migrate_baseline_if_needed(r.baseline), LAMBDA g :
        LET b1 == g.baseline
            pinged == ~b1.first_alert_sent
            b2 == [b1 EXCEPT !.first_alert_sent = TRUE]
            b3 == CaptureDayOpen(b2, inp.spot)
            told == IF inp.notify_ok THEN 1 ELSE 0
            early == r.saved \/ g.saved
            stop(b, stage, saved, delivered) ==
                [baseline |-> b,
                 out |-> [IdleOut(stage) EXCEPT !.inp = inp,
                                                !.reset = r.saved,
                                                !.saved = saved,
                                                !.delivered = delivered]]
        IN  IF ~inp.market_open
            THEN [baseline |-> b0, out |-> [IdleOut("market_closed") EXCEPT !.inp = inp]]
            ELSE IF pinged /\ ~inp.ping_ok THEN stop(b1, "ping_failed", early, told)
            ELSE Bind([saved |-> early \/ pinged,
                       delivered |-> IF pinged THEN told ELSE 0], LAMBDA p :
                 IF ~inp.trading_window
                 THEN stop(b2, "outside_window", p.saved, p.delivered)
                 ELSE IF inp.spot = None
                 THEN stop(b2, "spot_failed", p.saved, p.delivered + told)
                 ELSE IF ~inp.chain_ok
                 THEN stop(b3, "chain_failed", p.saved \/ b3 # b2, p.delivered + told)
                 ELSE IF inp.days_to_expiry = None
                 THEN stop(b3, "no_expiry", p.saved \/ b3 # b2, p.delivered)
                 ELSE Bind(b3, LAMBDA b :
                      Bind(Classify(b, now, inp, Atm(inp.spot)), LAMBDA res :
                         [res EXCEPT !.out.inp = inp,
                                     !.out.reset = r.saved,
                                     !.out.saved = @ \/ p.saved \/ b3 # b2,
                                     !.out.delivered = @ + p.delivered])))))

-----------------------------------------------------------------------------
(* ENVIRONMENT: bounded inputs of a scan() run *)

MaxDays == 2      \* calendar days
MaxScans == 3     \* scan() runs per calendar day
ScanGap == 35     \* minutes between two runs

StrikeSeq == <<25000, 25050>>

Quote(oi, ltp, vol) == [oi |-> oi, ltp |-> ltp, vol |-> vol]
Row(opt, strike, q) ==
    [option_type |-> opt, strike |-> strike, oi |-> q.oi, ltp |-> q.ltp, vol |-> q.vol]

\* What the provider reports for one strike: the rows of its two sides, in
\* the order they come in the chain (a side may be missing).
Both(ce, pe) == <<<<"CE", ce>>, <<"PE", pe>>>>
PutFirst(ce, pe) == <<<<"PE", pe>>, <<"CE", ce>>>>
OnlySide(opt, q) == <<<<opt, q>>>>

Quiet     == Quote(1000, 100, 10)
Thin      == Quote(500, 100, 10)
Lower     == Quote(900, 100, 10)
Watchable == Quote(4000, 100, 10)
Built     == Quote(6000, 100, 10)
BuiltBusy == Quote(6000, 100, 30)
BuiltDear == Quote(6000, 120, 10)
Gone      == Quote(0, 100, 10)
BuiltFirm == Quote(6000, 110, 30)
BuiltMore == Quote(7000, 100, 30)
Garbled   == Quote(None, 100, 10)
Unpriced  == Quote(1000, None, 10)

\* Four bounded feeds.  "rotation": both strikes build on the call side and
\* then on the put side, and the notifier is down.  "general": one active
\* strike with a thin side, a side listed late, put-first row order, both
\* sides high and then both lower, a side gone.  "faults": runs that stop early or raise, a
\* moving spot, and the notifier down.  "expiry": the last days before expiry
\* in STRICT mode, a moving spot and a rising premium.
FeedNames == {"rotation", "general", "faults", "expiry"}

FeedQuotes(f, strike) ==
    CASE f = "rotation" ->
            {Both(Quiet, Quiet), Both(Built, Lower), Both(Lower, BuiltBusy)}
      [] f = "general" /\ strike = 25000 ->
            {Both(Quiet, Quiet), Both(Thin, Quiet), OnlySide("CE", Quiet),
             Both(Watchable, Quiet), Both(Built, Lower), PutFirst(Built, Lower),
             Both(BuiltDear, Lower), Both(Built, BuiltBusy), Both(Built, Gone),
             Both(BuiltMore, BuiltMore)}
      [] f = "faults" /\ strike = 25000 ->
            {Both(Quiet, Quiet), Both(Built, Lower), Both(Built, Quiet),
             Both(Built, Garbled), Both(Watchable, Unpriced)}
      [] f = "expiry" /\ strike = 25000 ->
            {Both(Quiet, Quiet), Both(BuiltBusy, Lower), Both(BuiltFirm, Lower)}
      [] OTHER -> {Both(Quiet, Quiet)}

FeedModes(f) ==
    CASE f = "faults" -> {"BALANCED"}
      [] f = "expiry" -> {"STRICT"}
      [] OTHER -> {"AGGRESSIVE"}

\* The days to the nearest expiry the provider's expiry list gives.
FeedDays(f) == IF f = "expiry" THEN {0, 1, 2} ELSE {3}

\* The spot the provider reports, and whether the notifier's request goes
\* through, in the runs of a feed.
FeedSpots(f) == IF f \in {"faults", "expiry"} THEN {25000, 25075} ELSE {25000}
FeedNotify(f) == f \in {"general", "expiry"}

RECURSIVE Chain(_, _)
Chain(pick, i) ==
    IF i > Len(StrikeSeq) THEN <<>>
    ELSE LET q == pick[i]
         IN  [j \in DOMAIN q |-> Row(q[j][1], StrikeSeq[i], q[j][2])] \o Chain(pick, i + 1)

Snapshots(f) ==
    {Chain(<<q1, q2>>, 1) : q1 \in FeedQuotes(f, StrikeSeq[1]),
                            q2 \in FeedQuotes(f, StrikeSeq[2])}

GoodRun ==
    [market_open |-> TRUE, ping_ok |-> TRUE, trading_window |-> TRUE,
     spot |-> 25000, chain_ok |-> TRUE, chain |-> <<>>,
     days_to_expiry |-> 3, mode |-> "BALANCED", notify_ok |-> TRUE]

FullRuns(f) ==
    {[GoodRun EXCEPT !.chain = c, !.mode = m, !.spot = s, !.days_to_expiry = d,
                     !.notify_ok = FeedNotify(f)] :
        c \in Snapshots(f), m \in FeedModes(f), s \in FeedSpots(f), d \in FeedDays(f)}

FailedRuns(f) ==
    IF f = "faults"
    THEN {[run EXCEPT !.notify_ok = FeedNotify(f)] : run \in
            {[GoodRun EXCEPT !.market_open = FALSE],
             [GoodRun EXCEPT !.ping_ok = FALSE],
             [GoodRun EXCEPT !.trading_window = FALSE],
             [GoodRun EXCEPT !.spot = None],
             [GoodRun EXCEPT !.chain_ok = FALSE],
             [GoodRun EXCEPT !.days_to_expiry = None]}}
    ELSE {}

Runs(f) == FullRuns(f) \cup FailedRuns(f)

-----------------------------------------------------------------------------
(* STATE MACHINE *)

NoProbe == [fn |-> "none"]

Now == clock * ScanGap

SentScoresOf(o) == [i \in DOMAIN o.sent |-> o.scored[o.sent[i]]]

InitFeed(f) ==
    /\ feed = f
    /\ file = create_empty_baseline
    /\ day = 1
    /\ clock = 0
    /\ out = IdleOut("none")
    /\ sentScores = <<>>
    /\ probe = NoProbe

Init == \E f \in FeedNames : InitFeed(f)

\* One run of scan() at the current time.
Scan ==
    /\ probe = NoProbe
    /\ clock < MaxScans
    /\ \E inp \in Runs(feed) :
          \E res \in {scan(file, day, Now, inp)} :
              /\ file' = res.baseline
              /\ out' = res.out
              /\ sentScores' = (IF res.out.reset THEN <<>> ELSE sentScores)
                               \o SentScoresOf(res.out)
    /\ clock' = clock + 1
    /\ UNCHANGED <<day, probe, feed>>

\* Midnight passes; nothing runs.
NewDay ==
    /\ probe = NoProbe
    /\ day < MaxDays
    /\ day' = day + 1
    /\ clock' = 0
    /\ UNCHANGED <<file, out, sentScores, probe, feed>>

Next == Scan \/ NewDay

Spec == Init /\ [][Next]_vars

-----------------------------------------------------------------------------
(* THE DAILY LIMITER ON ITS OWN: the alert loop offered arbitrary scores *)

MaxOffers == 5    \* buildups offered to the alert loop in a day

OfferScores == {95, 104, 105, 106, 120}

Buildup(score) ==
    [strike |-> 25000, opt_type |-> "CE", conviction_score |-> score,
     score |-> score, tier |-> Tier(score)]

LimiterInit ==
    /\ feed = "none"
    /\ file = reset_on_new_day(create_empty_baseline, 1).baseline
    /\ day = 1
    /\ clock = 0
    /\ out = IdleOut("none")
    /\ sentScores = <<>>
    /\ probe = [fn |-> "limiter", score |-> None, send |-> FALSE]

\* One iteration of the alert loop with a buildup of the given score.
Offer ==
    /\ clock < MaxOffers
    /\ \E score \in OfferScores :
          \E a \in {OfferSignal(StartAcc(file), Buildup(score), Now)} :
              /\ file' = a.baseline
              /\ probe' = [fn |-> "limiter", score |-> score, send |-> a.sent # <<>>]
              /\ sentScores' = IF a.sent # <<>> THEN Append(sentScores, score)
                               ELSE sentScores
    /\ clock' = clock + 1
    /\ UNCHANGED <<day, out, feed>>

LimiterNext == Offer

SpecLimiter == LimiterInit /\ [][LimiterNext]_vars

-----------------------------------------------------------------------------
(* THE CONVICTION SCORER ON ITS OWN: inputs drawn from bounded sets *)

MaxVaries == 2    \* inputs changed away from a starting input

ClusterKinds == {"isolated", "moderate", "strong"}

\* strike_oi_changes around a strike: nothing, one adjacent strike whose
\* opposite side declines, or three adjacent strikes building on the same side.
ClusterMap(kind, strike, opt) ==
    CASE kind = "moderate" -> (<<OppOpt(opt), strike + 50>> :> Int2Rat(-6))
      [] kind = "strong" ->
            [k \in {<<opt, strike - 50>>, <<opt, strike + 50>>, <<opt, strike + 100>>} |->
                Int2Rat(350)]
      [] OTHER -> EmptyData

WorstInput ==
    [strike |-> 25100, opt_type |-> "CE", vol_multiplier |-> Int2Rat(1),
     buildup_time_mins |-> 121, opp_decline_pct |-> Int2Rat(0), decline_streak |-> 0,
     day_open |-> 25000, spot |-> 25000, scan_count |-> 1, cluster |-> "isolated",
     ltp_change_pct |-> Int2Rat(9)]

BestInput ==
    [strike |-> 25000, opt_type |-> "CE", vol_multiplier |-> Int2Rat(3),
     buildup_time_mins |-> 0, opp_decline_pct |-> Int2Rat(-10), decline_streak |-> 3,
     day_open |-> 25000, spot |-> 24925, scan_count |-> 3, cluster |-> "strong",
     ltp_change_pct |-> Int2Rat(-5)]

PlainInput ==
    [strike |-> 25050, opt_type |-> "PE", vol_multiplier |-> Int2Rat(2),
     buildup_time_mins |-> 60, opp_decline_pct |-> Int2Rat(-5), decline_streak |-> 2,
     day_open |-> None, spot |-> 25050, scan_count |-> 2, cluster |-> "moderate",
     ltp_change_pct |-> Int2Rat(5)]

InputFields == DOMAIN WorstInput

\* The values each input of the scorer is drawn from: both sides of every
\* threshold the scorer compares it with.
InputValues(f) ==
    CASE f = "strike" -> {25000, 25025, 25050, 25075, 25100}
      [] f = "opt_type" -> Opts
      [] f = "vol_multiplier" -> {Int2Rat(1), <<3, 2>>, Int2Rat(2), <<5, 2>>, Int2Rat(3)}
      [] f = "buildup_time_mins" -> {0, 30, 31, 60, 61, 120, 121}
      [] f = "opp_decline_pct" ->
            {Int2Rat(0), Int2Rat(-1), <<-3, 2>>, Int2Rat(-5), Int2Rat(-10), Int2Rat(-85)}
      [] f = "decline_streak" -> {0, 1, 2, 3, 4}
      [] f = "day_open" -> {None, 0, 25000}
      [] f = "spot" -> {24925, 24950, 25000, 25050, 25075}
      [] f = "scan_count" -> {0, 1, 2, 3, 4}
      [] f = "cluster" -> ClusterKinds
      [] f = "ltp_change_pct" ->
            {Int2Rat(-6), Int2Rat(-5), Int2Rat(0), Int2Rat(5), Int2Rat(8), Int2Rat(9)}

\* The scorer called as scan() calls it, at ATM 25000.
ScoreOf(inp) ==
    calculate_conviction_score(
        [strike            |-> inp.strike,
         opt_type          |-> inp.opt_type,
         oi_pct            |-> Int2Rat(OI_EXEC_THRESHOLD),
         ltp_change_pct    |-> inp.ltp_change_pct,
         vol_multiplier    |-> inp.vol_multiplier,
         opp_decline_pct   |-> inp.opp_decline_pct,
         decline_streak    |-> inp.decline_streak,
         buildup_time_mins |-> inp.buildup_time_mins,
         scan_count        |-> inp.scan_count,
         exec_threshold    |-> OI_EXEC_THRESHOLD,
         days_to_expiry    |-> 3],
        25000, inp.day_open, inp.spot,
        ClusterMap(inp.cluster, inp.strike, inp.opt_type))

NotScored ==
    [score |-> 0, tier |-> "", components |-> [n \in ComponentNames |-> 0]]

ScorerInit ==
    /\ feed = "none"
    /\ file = create_empty_baseline
    /\ day = 1
    /\ clock = 0
    /\ out = IdleOut("none")
    /\ sentScores = <<>>
    /\ \E inp \in {WorstInput, BestInput, PlainInput} :
          probe = [fn |-> "scorer", scored |-> FALSE, inp |-> inp, res |-> NotScored]

\* calculate_conviction_score applied to the input at hand.
ScoreInput ==
    /\ ~probe.scored
    /\ probe' = [probe EXCEPT !.scored = TRUE, !.res = ScoreOf(probe.inp)]
    /\ UNCHANGED <<file, day, clock, out, sentScores, feed>>

\* Another input: one field of the last one changed.
VaryInput ==
    /\ probe.scored
    /\ clock < MaxVaries
    /\ \E f \in InputFields :
          \E v \in InputValues(f) \ {probe.inp[f]} :
              probe' = [probe EXCEPT !.scored = FALSE, !.res = NotScored,
                                     !.inp = [probe.inp EXCEPT ![f] = v]]
    /\ clock' = clock + 1
    /\ UNCHANGED <<file, day, out, sentScores, feed>>

ScorerNext == ScoreInput \/ VaryInput

SpecScorer == ScorerInit /\ [][ScorerNext]_vars

-----------------------------------------------------------------------------
(* MIGRATION ON ITS OWN: a stored record of today with fields missing *)

MaxMissing == 3   \* fields missing from the stored record

\* A record the program wrote itself: two runs, the second with a call side
\* built up over a put side that gave way.
StoredRecord ==
    Bind(scan(create_empty_baseline, 1, 0,
              [GoodRun EXCEPT !.chain = Chain(<<Both(Quiet, Quiet), Both(Quiet, Quiet)>>, 1)]),
         LAMBDA first :
            scan(first.baseline, 1, ScanGap,
                 [GoodRun EXCEPT !.chain = Chain(<<Both(Built, Lower), Both(Quiet, Quiet)>>, 1)]
                ).baseline)

RootFields == DOMAIN create_empty_baseline
EntryFields == DOMAIN NewEntry(Row("CE", 25000, Quiet))

\* A record without the fields named.
Without(rec, fields) == [f \in DOMAIN rec \ fields |-> rec[f]]

\* StoredRecord without the root fields `root` and, in its entry k, without
\* the entry fields `inner`.
Stripped(root, k, inner) ==
    Bind([StoredRecord EXCEPT !.data[k] = Without(@, inner)], LAMBDA b :
        Without(b, root))

\* The runs that may follow the migration.
MigrateRuns ==
    {[GoodRun EXCEPT !.chain = Chain(<<q, Both(Quiet, Quiet)>>, 1)] :
        q \in {Both(Quiet, Quiet), Both(Built, Lower)}}

\* Every field scan() reads by subscript is there: first_alert_sent, data,
\* and in each entry the three baseline fields and the state.
ScanReadsPresent(b) ==
    /\ {"first_alert_sent", "data"} \subseteq DOMAIN b
    /\ \A k \in DOMAIN b.data :
          {"baseline_oi", "baseline_ltp", "baseline_vol", "state"} \subseteq DOMAIN b.data[k]

MigrateInit ==
    /\ feed = "none"
    /\ day = 1
    /\ clock = 2
    /\ out = IdleOut("none")
    /\ sentScores = <<>>
    /\ \E root \in SUBSET (RootFields \ {"date"}), k \in DOMAIN StoredRecord.data,
          inner \in SUBSET EntryFields :
          /\ Cardinality(root) + Cardinality(inner) <= MaxMissing
          /\ file = Stripped(root, k, inner)
          /\ probe = [fn |-> "migrate", stage |-> "stored", stored |-> file,
                      saved |-> FALSE]

\* load_baseline(), reset_on_new_day() on a record of today, and
\* migrate_baseline_if_needed().
Migrate ==
    /\ probe.fn = "migrate"
    /\ probe.stage = "stored"
    /\ \E g \in {migrate_baseline_if_needed(file)} :
          /\ file' = g.baseline
          /\ probe' = [probe EXCEPT !.stage = "migrated", !.saved = g.saved]
    /\ UNCHANGED <<day, clock, out, sentScores, feed>>

\* The rest of scan() on the migrated record: it raises KeyError at the first
\* subscript of a field that is not there.
ScanAfterMigrate ==
    /\ probe.fn = "migrate"
    /\ probe.stage = "migrated"
    /\ IF ScanReadsPresent(file)
       THEN \E inp \in MigrateRuns :
               \E res \in {scan(file, day, Now, inp)} :
                   /\ file' = res.baseline
                   /\ out' = res.out
                   /\ probe' = [probe EXCEPT !.stage = "scanned"]
       ELSE /\ probe' = [probe EXCEPT !.stage = "key_error"]
            /\ UNCHANGED <<file, out>>
    /\ UNCHANGED <<day, clock, sentScores, feed>>

MigrateNext == Migrate \/ ScanAfterMigrate

SpecMigrate == MigrateInit /\ [][MigrateNext]_vars

-----------------------------------------------------------------------------
(* TWO INVOCATIONS ON ONE FILE: load_baseline() and save_baseline() take no
   lock, so the runs of two processes may interleave between them *)

MaxInvocations == 4   \* runs of scan() started, by either process

Procs == {1, 2}

\* The file after the first run of the day, which found all quiet.
SeededFile ==
    scan(create_empty_baseline, 1, 0,
         [GoodRun EXCEPT !.chain = Chain(<<Both(Quiet, Quiet), Both(Quiet, Quiet)>>, 1),
                         !.mode = "AGGRESSIVE"]).baseline

\* What the provider may report to a run.
OverlapRuns ==
    {[GoodRun EXCEPT !.chain = Chain(<<q, Both(Quiet, Quiet)>>, 1), !.mode = "AGGRESSIVE"] :
        q \in {Both(Quiet, Quiet), Both(Built, Lower), Both(Lower, BuiltBusy)}}

OverlapInit ==
    /\ feed = "none"
    /\ day = 1
    /\ clock = 1
    /\ file = SeededFile
    /\ out = IdleOut("none")
    /\ sentScores = <<>>
    /\ probe = [fn      |-> "overlap",
                pc      |-> [p \in Procs |-> "idle"],
                loaded  |-> [p \in Procs |-> SeededFile],
                sent    |-> <<>>,
                watched |-> 0]

\* scan() up to and including load_baseline(): the process holds its own copy
\* of the file from here on.
Load(p) ==
    /\ probe.fn = "overlap"
    /\ probe.pc[p] = "idle"
    /\ clock <= MaxInvocations
    /\ probe' = [probe EXCEPT !.pc[p] = "loaded", !.loaded[p] = file]
    /\ clock' = clock + 1
    /\ UNCHANGED <<file, day, out, sentScores, feed>>

\* The rest of scan() on the copy: whatever it saves overwrites the file.
Finish(p) ==
    /\ probe.fn = "overlap"
    /\ probe.pc[p] = "loaded"
    /\ \E inp \in OverlapRuns :
          \E res \in {scan(probe.loaded[p], day, Now, inp)} :
              /\ file' = IF res.out.saved THEN res.baseline ELSE file
              /\ out' = res.out
              /\ sentScores' = sentScores \o SentScoresOf(res.out)
              /\ probe' = [probe EXCEPT
                              !.pc[p] = "idle",
                              !.sent = @ \o res.out.sent,
                              !.watched = @ + Cardinality(res.out.watch)]
    /\ UNCHANGED <<day, clock, feed>>

OverlapNext == \E p \in Procs : Load(p) \/ Finish(p)

SpecOverlap == OverlapInit /\ [][OverlapNext]_vars

-----------------------------------------------------------------------------
(* PROPERTIES OF THE STRIKE LEDGER *)

StateRank(state) ==
    CASE state = "NONE" -> 0
      [] state = "WATCH" -> 1
      [] state = "EXECUTED" -> 2
      [] OTHER -> -1

\* The ledger as it stood for the trading day of the step's run: the stored
\* entries when the date is kept, nothing when the run reset the day.
CarriedData == IF file'.date = file.date THEN file.data ELSE EmptyData

\* The step is a run of scan().
IsScanStep == clock' = clock + 1

\* The row of key k in the filtered snapshot of the last run.
HasRow(o, k) == \E i \in DOMAIN o.rows : Key(o.rows[i]) = k
RowOf(o, k) == LastRow(o.rows, k)

\* C1: within a trading day every entry's state only moves forward along
\* NONE -> WATCH -> EXECUTED; no run takes WATCH back to NONE or EXECUTED back
\* to WATCH or NONE, and an entry only disappears with the new-day reset.
C1_StateMonotonic ==
    [][\A k \in DOMAIN CarriedData :
          /\ k \in DOMAIN file'.data
          /\ StateRank(file.data[k].state) >= 0
          /\ StateRank(file'.data[k].state) >= StateRank(file.data[k].state)]_vars

\* An entry is EXECUTED although the run that just ended saw its OI back at
\* the baseline and did not collect it: it was EXECUTED by an earlier run.
C1_Witness ==
    /\ out.stage = "done"
    /\ \E k \in DOMAIN file.data :
          /\ file.data[k].state = "EXECUTED"
          /\ k \notin DOMAIN out.scored
          /\ HasRow(out, k)
          /\ RowOf(out, k).oi = file.data[k].baseline_oi

\* C2: once an entry is EXECUTED, no later run of the day takes it as an
\* execution candidate, scores it, collects it as a signal, sends it or
\* changes its state.
C2_ExecutedTerminal ==
    [][IsScanStep =>
          \A k \in DOMAIN CarriedData :
              file.data[k].state = "EXECUTED" =>
                  /\ file'.data[k].state = "EXECUTED"
                  /\ k \notin out'.candidates
                  /\ k \notin DOMAIN out'.scored
                  /\ \A i \in DOMAIN out'.buildups : out'.buildups[i] # k
                  /\ \A i \in DOMAIN out'.sent : out'.sent[i] # k]_vars

\* An entry EXECUTED by an earlier run is seen by the last run with OI still
\* at or above the execution threshold, premium unchanged and the opposite
\* side still falling, and the run did not take it up.
C2_Witness ==
    /\ out.stage = "done"
    /\ \E k \in DOMAIN file.data :
          /\ file.data[k].state = "EXECUTED"
          /\ k \notin out.candidates
          /\ HasRow(out, k)
          /\ RowOf(out, k).oi >= 6 * file.data[k].baseline_oi
          /\ RowOf(out, k).ltp = file.data[k].baseline_ltp
          /\ file.data[k].scan_count >= 2

\* C3: in every reachable state signals_today is at most MAX_SIGNALS_PER_DAY,
\* sends that replace a weaker signal included.
C3_SignalsWithinCap == file.signals_today <= MAX_SIGNALS_PER_DAY

\* C7: an entry whose baseline_oi is below MIN_BASE_OI stays NONE all day and
\* causes neither a WATCH notification nor an execution candidate, score,
\* collected signal or sent signal, whatever OI later runs report for it.
C7_BelowFloorInert ==
    \A k \in DOMAIN file.data :
        file.data[k].baseline_oi < MIN_BASE_OI =>
            /\ file.data[k].state = "NONE"
            /\ file.data[k].first_exec_time = None
            /\ k \notin out.watch
            /\ k \notin out.candidates
            /\ k \notin DOMAIN out.scored
            /\ \A i \in DOMAIN out.buildups : out.buildups[i] # k
            /\ \A i \in DOMAIN out.sent : out.sent[i] # k

\* An entry anchored below the floor whose OI the last run saw at twelve
\* times the anchor, with the opposite side of the strike falling.
C7_Witness ==
    /\ out.stage = "done"
    /\ \E k \in DOMAIN file.data :
          /\ file.data[k].baseline_oi < MIN_BASE_OI
          /\ k \notin out.created
          /\ HasRow(out, k)
          /\ RowOf(out, k).oi >= 12 * file.data[k].baseline_oi
          /\ HasRow(out, <<OppOpt(k[1]), k[2]>>)
          /\ RowOf(out, <<OppOpt(k[1]), k[2]>>).oi
                < file.data[<<OppOpt(k[1]), k[2]>>].baseline_oi

FreshBaseline(today) ==
    [date             |-> today,
     data             |-> EmptyData,
     first_alert_sent |-> FALSE,
     day_open         |-> None,
     signals_today    |-> 0,
     watch_today      |-> 0,
     daily_signals    |-> <<>>]

\* C8: applied to the stored baseline on a date other than its own,
\* reset_on_new_day gives the fresh baseline of that date (no entries, both
\* counters 0, no signals, no day open, startup ping not sent) and saves it at
\* once; on its own date it gives the baseline back unchanged and saves
\* nothing.  A run that stops right after the reset leaves exactly the fresh
\* baseline on file.
C8_ResetOnNewDay ==
    /\ \A today \in 1..(MaxDays + 1) :
          \E r \in {reset_on_new_day(file, today)} :
              IF file.date # today
              THEN r.baseline = FreshBaseline(today) /\ r.saved
              ELSE r.baseline = file /\ ~r.saved
    /\ (out.reset /\ out.stage = "ping_failed") => file = FreshBaseline(file.date)

\* The stored baseline is of the day before and has accumulated entries,
\* notifications, signals, a day open and the startup ping.
C8_Witness ==
    /\ file.date # None
    /\ file.date # day
    /\ DOMAIN file.data # {}
    /\ file.signals_today > 0
    /\ file.watch_today > 0
    /\ file.daily_signals # <<>>
    /\ file.day_open # None
    /\ file.first_alert_sent
    /\ \E k \in DOMAIN file.data : file.data[k].state = "EXECUTED"

\* C9: baseline_oi, baseline_ltp and baseline_vol of a key are written by the
\* run that first sees the key on the day, with that run's values, and no
\* later run of the day changes them.
C9_BaselineWrittenOnce ==
    [][IsScanStep =>
          \A k \in DOMAIN file'.data :
              IF k \in DOMAIN CarriedData
              THEN /\ file'.data[k].baseline_oi = file.data[k].baseline_oi
                   /\ file'.data[k].baseline_ltp = file.data[k].baseline_ltp
                   /\ file'.data[k].baseline_vol = file.data[k].baseline_vol
              ELSE \E i \in DOMAIN out'.rows :
                      /\ Key(out'.rows[i]) = k
                      /\ file'.data[k].baseline_oi = out'.rows[i].oi
                      /\ file'.data[k].baseline_ltp = out'.rows[i].ltp
                      /\ file'.data[k].baseline_vol = out'.rows[i].vol]_vars

\* An entry of an earlier run went through classification, the covering
\* check and signal recording in the last run, which saw another OI and
\* another volume than the anchor.
C9_Witness ==
    /\ out.stage = "done"
    /\ \E k \in DOMAIN file.data :
          /\ k \notin out.created
          /\ \E i \in DOMAIN out.sent : out.sent[i] = k
          /\ RowOf(out, k).oi # file.data[k].baseline_oi
          /\ RowOf(out, k).vol # file.data[k].baseline_vol
          /\ file.data[k].prev_oi = RowOf(out, k).oi

OppKey(k) == <<OppOpt(k[1]), k[2]>>

\* After a run whose loops ran to their end, prev_oi of every key of the
\* snapshot is the run's OI.
PrevOiIsScanOi ==
    out'.stage = "done" =>
        \A i \in DOMAIN out'.rows :
            /\ Key(out'.rows[i]) \in DOMAIN file'.data
            /\ file'.data[Key(out'.rows[i])].prev_oi = RowOf(out', Key(out'.rows[i])).oi

-----------------------------------------------------------------------------
(* PROPERTIES OF THE DAILY LIMITER *)

\* The number of places of a sequence of scores that hold v.
Count(scores, v) == Cardinality({i \in DOMAIN scores : scores[i] = v})

DailyScores == [i \in DOMAIN file.daily_signals |-> file.daily_signals[i].score]

\* The candidate beats some recorded signal by more than the improvement
\* threshold, that is, it beats the weakest one.
BeatsWeakest(score) ==
    \E i \in DOMAIN DailyScores : score > DailyScores[i] + SCORE_IMPROVEMENT_THRESHOLD

CapReachedAt(weakest) ==
    /\ file.signals_today >= MAX_SIGNALS_PER_DAY
    /\ DailyScores # <<>>
    /\ \A i \in DOMAIN DailyScores : DailyScores[i] >= weakest
    /\ \E i \in DOMAIN DailyScores : DailyScores[i] = weakest

C5_TopSignals ==
    /\ Len(DailyScores) <= MAX_SIGNALS_PER_DAY
    /\ Len(DailyScores) = IF Len(sentScores) < MAX_SIGNALS_PER_DAY
                          THEN Len(sentScores) ELSE MAX_SIGNALS_PER_DAY
    /\ \A i, j \in DOMAIN DailyScores : i < j => DailyScores[i] >= DailyScores[j]
    /\ \A i \in DOMAIN DailyScores :
          Count(DailyScores, DailyScores[i]) <= Count(sentScores, DailyScores[i])
    /\ \A i \in DOMAIN sentScores :
          Count(DailyScores, sentScores[i]) < Count(sentScores, sentScores[i]) =>
              \A j \in DOMAIN DailyScores : DailyScores[j] >= sentScores[i]
    /\ file.signals_today = Len(sentScores)

\* Five signals were recorded in the day, the later ones stronger than the
\* first, so that recorded signals have been dropped from daily_signals.
C5_Witness ==
    /\ Len(sentScores) = 5
    /\ sentScores[1] = 95
    /\ sentScores[5] = 120
    /\ Count(DailyScores, 95) = 0
    /\ Count(sentScores, 106) = 2

-----------------------------------------------------------------------------
(* PROPERTIES OF THE CONVICTION SCORER *)

ComponentRange(n) ==
    CASE n = "strike_quality_pts" -> 0..30
      [] n = "volume_pts" -> 0..20
      [] n = "velocity_pts" -> 0..25
      [] n = "decline_pts" -> 0..25
      [] n = "decline_streak_pts" -> 0..20
      [] n = "spot_pts" -> -20..20
      [] n = "sustainability_pts" -> 0..15
      [] n = "cluster_pts" -> 0..20
      [] n = "premium_behavior_pts" -> -10..15

RECURSIVE SumOf(_, _)
SumOf(c, names) ==
    IF names = {} THEN 0
    ELSE LET n == CHOOSE x \in names : TRUE
         IN  c[n] + SumOf(c, names \ {n})

-----------------------------------------------------------------------------
(* PROPERTIES OF THE WATCH STAGE *)

\* The baseline the step's run worked on: the stored one, or a fresh one
\* when the run found the date changed.
CarriedBaseline == IF file'.date = file.date THEN file ELSE FreshBaseline(file'.date)

\* The OI change of key k in the step's snapshot against its stored baseline.
CarriedOiPct(k) == PctChange(RowOf(out', k).oi, file.data[k].baseline_oi)

\* Key k is in the ledger at or above the floor, and the step's snapshot
\* shows it at or above pct percent.
ScannedAtOrAbove(k, pct) ==
    /\ k \in DOMAIN CarriedData
    /\ file.data[k].baseline_oi >= MIN_BASE_OI
    /\ HasRow(out', k)
    /\ RatGE(CarriedOiPct(k), Int2Rat(pct))

\* Both sides at the strike are at or above OI_BOTH_SIDES_AVOID in the step.
BothSidesHigh(strike) ==
    \A opt \in Opts : ScannedAtOrAbove(<<opt, strike>>, OI_BOTH_SIDES_AVOID)

\* Key k was in state NONE and the step's snapshot shows it at or above
\* OI_WATCH_THRESHOLD.
WatchTriggered(k) ==
    /\ ScannedAtOrAbove(k, OI_WATCH_THRESHOLD)
    /\ file.data[k].state = "NONE"

\* None of the first two gates rejects the notification for k.
WatchEligible(k) ==
    /\ WatchTriggered(k)
    /\ ~BothSidesHigh(k[2])
    /\ Abs(k[2] - Atm(out'.inp.spot)) <= STRIKE_RANGE_POINTS

RowIndex(o, k) == CHOOSE i \in DOMAIN o.rows : Key(o.rows[i]) = k

\* The notifications the run had counted when it came to the row of k.
WatchCountAt(k) ==
    CarriedBaseline.watch_today
        + Cardinality({j \in RowKeys(out'.rows) :
                          WatchEligible(j) /\ RowIndex(out', j) < RowIndex(out', k)})

\* C11: in a run whose loops run to their end, every entry in state NONE at
\* or above the floor that the snapshot shows at or above OI_WATCH_THRESHOLD
\* leaves NONE, whatever the gates say; its WATCH notification is sent exactly
\* when neither side-conflict nor distance from ATM nor the daily cap rejects
\* it, and watch_today grows by exactly the notifications sent.
C11_WatchTransition ==
    [][(IsScanStep /\ out'.stage = "done") =>
          /\ \A k \in DOMAIN CarriedData :
                WatchTriggered(k) =>
                    /\ file'.data[k].state # "NONE"
                    /\ k \in out'.watch <=>
                           (WatchEligible(k) /\ WatchCountAt(k) < MAX_WATCH_PER_DAY)
          /\ \A k \in out'.watch : WatchTriggered(k)
          /\ file'.watch_today = CarriedBaseline.watch_today + Cardinality(out'.watch)]_vars

\* The last run moved both sides of a strike to WATCH without a notification
\* (both sides were high), and on another day path the cap held one back.
C11_Witness ==
    /\ out.stage = "done"
    /\ \E k \in DOMAIN file.data :
          /\ file.data[k].state = "WATCH"
          /\ file.data[k].first_exec_time = (clock - 1) * ScanGap
          /\ file.data[k].scan_count = 1
          /\ HasRow(out, k)
          /\ k \in out.candidates
          /\ k \notin out.watch
          /\ file.data[OppKey(k)].state = "WATCH"
          /\ OppKey(k) \notin out.watch

\* The stored baseline with the signal counter and the signal list replaced.
WithSignals(b, n, signals) == [b EXCEPT !.signals_today = n, !.daily_signals = signals]

\* WatchStep on the row of key k of the last snapshot, as if its entry were
\* in state NONE at oi_pct percent, from baseline b.
WatchProbe(b, k, oi_pct) ==
    WatchStep(StartAcc(b), RowOf(out, k),
              [atm |-> Atm(out.inp.spot),
               strike_oi_changes |-> StrikeOiChanges(out.rows, b.data)],
              Int2Rat(oi_pct), "NONE")

\* C12: watch_today never exceeds MAX_WATCH_PER_DAY, and the two counters are
\* independent: the WATCH step gives the same notification decision and the
\* same watch_today whatever signals_today and daily_signals hold, and leaves
\* both as they are; the limiter gives the same decision whatever watch_today
\* holds, and recording a signal leaves watch_today as it is.
C12_CountersIndependent ==
    /\ file.watch_today <= MAX_WATCH_PER_DAY
    /\ \A k \in RowKeys(out.rows) \cap DOMAIN file.data :
          \A n \in 0..(MAX_SIGNALS_PER_DAY + 1) :
              \E a \in {WatchProbe(file, k, OI_WATCH_THRESHOLD)},
                 c \in {WatchProbe(WithSignals(file, n, <<>>), k, OI_WATCH_THRESHOLD)} :
                  /\ a.watch = c.watch
                  /\ a.baseline.watch_today = c.baseline.watch_today
                  /\ a.baseline.signals_today = file.signals_today
                  /\ a.baseline.daily_signals = file.daily_signals
                  /\ c.baseline.signals_today = n
                  /\ c.baseline.daily_signals = <<>>
    /\ \A w \in 0..MAX_WATCH_PER_DAY :
          \A score \in OfferScores :
              \E b \in {[file EXCEPT !.watch_today = w]} :
                  /\ should_send_signal(b, score) = should_send_signal(file, score)
                  /\ record_signal(b, Buildup(score), Now).watch_today = w
                  /\ record_signal(b, Buildup(score), Now)
                        = [record_signal(file, Buildup(score), Now) EXCEPT !.watch_today = w]

\* The day's WATCH cap is reached, and the last run both held back the WATCH
\* notification of a key it first saw high and sent an execution signal.
C12_Witness ==
    /\ out.stage = "done"
    /\ file.watch_today = MAX_WATCH_PER_DAY
    /\ file.signals_today > 0
    /\ out.watch # {}
    /\ out.sent # <<>>
    /\ \E k \in DOMAIN out.scored :
          /\ k \notin out.watch
          /\ file.data[k].scan_count = 1
          /\ file.data[k].first_exec_time = (clock - 1) * ScanGap

-----------------------------------------------------------------------------
(* PROPERTIES OF THE COVERING CHECK *)

\* Key k had a ledger entry when the step's run came to the row of j: it was
\* carried into the run, or the run created it on an earlier row.
InLedgerBefore(k, j) ==
    \/ k \in DOMAIN CarriedData
    \/ k \in out'.created /\ RowIndex(out', k) < RowIndex(out', j)

\* prev_oi and baseline_oi of k as the run held them at its covering checks.
PrevOiAtCheck(k) ==
    IF k \in DOMAIN CarriedData THEN file.data[k].prev_oi ELSE RowOf(out', k).oi
BaselineOiAtCheck(k) ==
    IF k \in DOMAIN CarriedData THEN file.data[k].baseline_oi ELSE RowOf(out', k).oi

\* The rule of the covering check for the opposite key k at current OI cur:
\* scan-to-scan change at or below MIN_DECLINE_PCT, or change from the
\* baseline at or below MIN_CUMULATIVE_DECLINE_PCT.
CoveringExpected(k, cur) ==
    \/ /\ PrevOiAtCheck(k) > 0
       /\ RatLE(PctChange(cur, PrevOiAtCheck(k)), MIN_DECLINE_PCT)
    \/ /\ BaselineOiAtCheck(k) > 0
       /\ RatLE(PctChange(cur, BaselineOiAtCheck(k)),
                Int2Rat(MIN_CUMULATIVE_DECLINE_PCT))

\* C13: for every execution candidate that passed the conflict gate and whose
\* opposite side has a ledger entry and a row in the snapshot, the covering
\* check is made and confirms covering exactly when the opposite side's
\* scan-to-scan OI change is at or below -1.5% or its change from the
\* baseline is at or below -10%, whatever the opposite side's current OI,
\* 0 included.
C13_CoveringRule ==
    [][IsScanStep =>
          \A k \in out'.candidates :
              (/\ ~BothSidesHigh(k[2])
               /\ HasRow(out', OppKey(k))
               /\ InLedgerBefore(OppKey(k), k)) =>
                  /\ k \in DOMAIN out'.covering
                  /\ out'.covering[k] =
                         CoveringExpected(OppKey(k), RowOf(out', OppKey(k)).oi)]_vars

-----------------------------------------------------------------------------
(* PROPERTIES OF THE FAILURE PATHS *)

\* The step's run ended because get_nifty_spot() or fetch_option_chain()
\* raised.
FetchFailed == out'.stage \in {"ping_failed", "spot_failed", "chain_failed"}

\* C14 as stated: a run whose spot fetch or chain fetch fails leaves the file
\* as it was when the run started, the new-day reset apart.
C14_FailedFetchSavesNothing ==
    [][(IsScanStep /\ FetchFailed) => file' = CarriedBaseline]_vars

\* C14 amended: a run whose spot fetch or chain fetch fails changes no entry,
\* counter or signal list; of the file as it was when the run started, the
\* new-day reset apart, it changes only what it saved before the failing
\* fetch: first_alert_sent once the startup ping has gone out, and day_open,
\* set to the run's spot, if it was unset and the chain fetch is what failed.
C14_FailedFetchKeepsLedger ==
    [][(IsScanStep /\ FetchFailed) =>
          file' = [CarriedBaseline EXCEPT
                      !.first_alert_sent = out'.stage # "ping_failed",
                      !.day_open = IF out'.stage = "chain_failed" /\ @ = None
                                   THEN out'.inp.spot ELSE @]]_vars

\* The first run of a day sent the startup ping and captured the day open,
\* and then its chain fetch failed.
C14_Witness ==
    /\ out.stage = "chain_failed"
    /\ out.reset
    /\ file.first_alert_sent
    /\ file.day_open = out.inp.spot
    /\ file.data = EmptyData

\* The rows of a chain whose numeric fields all parse.
WellFormed(chain) ==
    SelectSeq(chain, LAMBDA r : Parses(r.oi) /\ Parses(r.ltp) /\ Parses(r.vol))

\* C15: a run whose snapshot holds a row with an unparseable OI, last price or
\* volume leaves the file exactly as the same run would have left it had the
\* row been absent from the snapshot: the other rows are observed and
\* classified, their prev_oi is updated, and the result is saved.
C15_MalformedRowSkipped ==
    [][(IsScanStep /\ WellFormed(out'.inp.chain) # out'.inp.chain) =>
          file' = scan(file, day, Now,
                       [out'.inp EXCEPT !.chain = WellFormed(@)]).baseline]_vars

-----------------------------------------------------------------------------
(* PROPERTIES OF THE MIGRATION *)

\* The fields migrate_baseline_if_needed() knows a default for.
MigratedRootFields == {"day_open", "signals_today", "watch_today", "daily_signals"}
MigratedEntryFields ==
    {"state", "first_exec_time", "scan_count", "prev_oi", "decline_streak"}

RootDefault(f) ==
    CASE f = "day_open" -> None
      [] f = "signals_today" -> 0
      [] f = "watch_today" -> 0
      [] f = "daily_signals" -> <<>>

EntryDefault(entry, f) ==
    CASE f = "state" -> "NONE"
      [] f = "first_exec_time" -> None
      [] f = "scan_count" -> 0
      [] f = "prev_oi" -> IF "baseline_oi" \in DOMAIN entry THEN entry.baseline_oi ELSE 0
      [] f = "decline_streak" -> 0

\* Record `after` is record `before` with exactly the fields of `known` that
\* `before` lacks added.
AddsOnly(before, after, known) ==
    /\ DOMAIN after = DOMAIN before \cup known
    /\ \A f \in DOMAIN before : f # "data" => after[f] = before[f]

\* The record after migration, against the stored one.
MigratedFrom(stored, migrated) ==
    /\ AddsOnly(stored, migrated, MigratedRootFields)
    /\ \A f \in MigratedRootFields \ DOMAIN stored : migrated[f] = RootDefault(f)
    /\ "data" \in DOMAIN stored =>
          /\ DOMAIN migrated.data = DOMAIN stored.data
          /\ \A k \in DOMAIN stored.data :
                /\ AddsOnly(stored.data[k], migrated.data[k], MigratedEntryFields)
                /\ \A f \in MigratedEntryFields \ DOMAIN stored.data[k] :
                      migrated.data[k][f] = EntryDefault(stored.data[k], f)

\* No field is missing from the record but fields the migration defaults.
OnlyNewerFieldsMissing(stored) ==
    /\ RootFields \ DOMAIN stored \subseteq MigratedRootFields
    /\ \A k \in DOMAIN StoredRecord.data :
          EntryFields \ DOMAIN stored.data[k] \subseteq MigratedEntryFields

Complete(stored) ==
    /\ DOMAIN stored = RootFields
    /\ \A k \in DOMAIN stored.data : DOMAIN stored.data[k] = EntryFields

ScanWithNotifierFlipped ==
    scan(file, day, Now, [out'.inp EXCEPT !.notify_ok = ~@])

\* C17: a run leaves the same file (entries, states, watch_today,
\* signals_today, daily_signals) and takes the same decisions whether the
\* notifier's requests in it succeed or fail; only the count of delivered
\* messages differs.
C17_NotifierFailureSwallowed ==
    [][IsScanStep =>
          \E other \in {ScanWithNotifierFlipped} :
              /\ other.baseline = file'
              /\ [other.out EXCEPT !.inp = out'.inp, !.delivered = out'.delivered] = out'
              /\ out'.inp.notify_ok \/ out'.delivered = 0]_vars

\* In the last run every request of the notifier failed, while the run moved
\* an entry to WATCH, counted its notification, and sent and recorded an
\* execution signal.
C17_Witness ==
    /\ out.stage = "done"
    /\ ~out.inp.notify_ok
    /\ out.delivered = 0
    /\ out.watch # {}
    /\ out.sent # <<>>
    /\ file.watch_today > 0
    /\ file.signals_today > 0
    /\ file.daily_signals # <<>>

-----------------------------------------------------------------------------
(* PROPERTIES OF OVERLAPPING INVOCATIONS *)

\* C18: whenever no invocation is under way, the file reflects every run so
\* far: signals_today counts every execution signal either process sent,
\* watch_today counts every WATCH notification either process sent, and no
\* key was sent an execution signal twice.
C18_NoLostUpdate ==
    (probe.fn = "overlap" /\ \A p \in Procs : probe.pc[p] = "idle") =>
        /\ file.signals_today = Len(probe.sent)
        /\ file.watch_today = probe.watched
        /\ \A i, j \in DOMAIN probe.sent : probe.sent[i] = probe.sent[j] => i = j

\* decline_streak of key k when the step's run started.
StreakBefore(k) == IF k \in DOMAIN CarriedData THEN file.data[k].decline_streak ELSE 0

\* C19: a run changes an entry's decline_streak only if its loops run to
\* their end and the opposite key at the same strike reached the covering
\* check, which takes a candidate at or above the floor, not EXECUTED and not
\* at a strike with both sides high; the streak then grows by exactly 1 if
\* covering was confirmed and becomes 0 if it was not.  In every other run it
\* is left as it was.
C19_DeclineStreakFrame ==
    [][IsScanStep =>
          /\ \A c \in DOMAIN out'.covering :
                /\ c \in out'.candidates
                /\ c \in DOMAIN CarriedData
                /\ file.data[c].state # "EXECUTED"
                /\ file.data[c].baseline_oi >= MIN_BASE_OI
                /\ ~BothSidesHigh(c[2])
          /\ \A k \in DOMAIN file'.data :
                file'.data[k].decline_streak =
                    IF out'.stage = "done" /\ OppKey(k) \in DOMAIN out'.covering
                    THEN IF out'.covering[OppKey(k)] THEN StreakBefore(k) + 1 ELSE 0
                    ELSE StreakBefore(k)]_vars

\* The opposite side was found covering in two runs, the candidate falling
\* short of the minimum score each time: the entry's streak stands at 2 and
\* the candidate is still not EXECUTED.
C19_Witness ==
    /\ out.stage = "done"
    /\ \E k \in DOMAIN file.data :
          /\ file.data[k].decline_streak = 2
          /\ OppKey(k) \in DOMAIN out.covering
          /\ out.covering[OppKey(k)]
          /\ out.scored[OppKey(k)] < out.min_score
          /\ file.data[OppKey(k)].state = "WATCH"

\* Key k occurs in a sequence of keys.
Occurs(keys, k) == \E i \in DOMAIN keys : keys[i] = k

\* C20: in a run where both sides at a strike are at or above
\* OI_BOTH_SIDES_AVOID, neither side becomes EXECUTED, no covering check is
\* made and no score computed for either, neither decline_streak at the
\* strike changes, and neither is collected or sent as a signal.
C20_ConflictDiscards ==
    [][IsScanStep =>
          \A k \in DOMAIN CarriedData :
              BothSidesHigh(k[2]) =>
                  /\ file'.data[k].state = "EXECUTED" => file.data[k].state = "EXECUTED"
                  /\ k \notin DOMAIN out'.covering
                  /\ k \notin DOMAIN out'.scored
                  /\ file'.data[k].decline_streak = file.data[k].decline_streak
                  /\ ~Occurs(out'.buildups, k)
                  /\ ~Occurs(out'.sent, k)
                  /\ ~Occurs(out'.skipped, k)]_vars

\* In the last run both sides of a strike stood at six times their baseline:
\* both were execution candidates, neither was checked for covering or
\* scored, and both are in WATCH.
C20_Witness ==
    /\ out.stage = "done"
    /\ \E strike \in {StrikeSeq[i] : i \in DOMAIN StrikeSeq} :
          \A opt \in Opts :
              /\ <<opt, strike>> \in out.candidates
              /\ <<opt, strike>> \notin DOMAIN out.covering
              /\ <<opt, strike>> \notin DOMAIN out.scored
              /\ RowOf(out, <<opt, strike>>).oi >= 6 * file.data[<<opt, strike>>].baseline_oi
              /\ file.data[<<opt, strike>>].state = "WATCH"
              /\ file.data[<<opt, strike>>].decline_streak = 0

-----------------------------------------------------------------------------
(* PROPERTIES OF THE EXECUTION STAGE *)

\* The premium change of key k in the step's snapshot against its stored
\* baseline price.
CarriedLtpPct(k) ==
    IF file.data[k].baseline_ltp > 0
    THEN PctChange(RowOf(out', k).ltp, file.data[k].baseline_ltp) ELSE Int2Rat(0)

\* The candidate conditions hold for key k in the step's run: the entry is at
\* or above the floor, OI at or above OI_EXEC_THRESHOLD and the premium change
\* within the run's tolerance.
CandidateConditions(k) ==
    /\ ScannedAtOrAbove(k, OI_EXEC_THRESHOLD)
    /\ RatLE(CarriedLtpPct(k), Int2Rat(out'.tolerance))

\* Key k was scored by the step's run with covering confirmed, below the
\* run's minimum.
FellShort(k) ==
    /\ k \in DOMAIN out'.scored
    /\ out'.covering[k]
    /\ out'.scored[k] < out'.min_score

\* C21: in a run whose loops run to their end, a candidate with covering
\* confirmed and a score below the run's minimum is not set to EXECUTED (it
\* stands in WATCH, where the WATCH step of the same row left it) and is
\* neither collected nor offered nor sent; and every entry not yet EXECUTED
\* for which the candidate conditions hold is taken as a candidate again,
\* whatever earlier runs of the day scored it, and becomes EXECUTED if the
\* run scores it at or above its minimum.
C21_BelowMinimumRetries ==
    [][(IsScanStep /\ out'.stage = "done") =>
          /\ \A k \in DOMAIN out'.scored :
                FellShort(k) =>
                    /\ k \in DOMAIN CarriedData
                    /\ file.data[k].state # "EXECUTED"
                    /\ file'.data[k].state = "WATCH"
                    /\ ~Occurs(out'.buildups, k)
                    /\ ~Occurs(out'.sent, k)
                    /\ ~Occurs(out'.skipped, k)
          /\ \A k \in DOMAIN CarriedData :
                (file.data[k].state # "EXECUTED" /\ CandidateConditions(k)) =>
                    /\ k \in out'.candidates
                    /\ (k \in DOMAIN out'.scored /\ out'.scored[k] >= out'.min_score) =>
                          /\ file'.data[k].state = "EXECUTED"
                          /\ Occurs(out'.buildups, k)]_vars

\* The last run set an entry to EXECUTED and sent its signal after an earlier
\* run of the day had found the opposite side covering and scored the same
\* candidate below the minimum: the opposite streak stands at 2 or more.
C21_Witness ==
    /\ out.stage = "done"
    /\ \E k \in DOMAIN out.scored :
          /\ out.scored[k] >= out.min_score
          /\ file.data[k].state = "EXECUTED"
          /\ Occurs(out.sent, k)
          /\ file.data[k].scan_count >= 2
          /\ file.data[OppKey(k)].decline_streak >= 2

\* C22: a run whose loops run to their end classifies every carried entry at
\* or above the floor that has a row, EXECUTED ones included: at or above
\* OI_EXEC_THRESHOLD scan_count grows by one and first_exec_time, if unset,
\* becomes the time of the run; below it both are cleared.  No other entry
\* and no other run changes either, so scan_count is the length of the
\* unbroken streak of classified runs at or above the threshold,
\* first_exec_time is the time of the streak's first run, and scan_count is 0
\* exactly when first_exec_time is unset.
C22_ExecStreak ==
    [][IsScanStep =>
          \A k \in DOMAIN file'.data :
              /\ file'.data[k].scan_count = 0 <=> file'.data[k].first_exec_time = None
              /\ IF k \notin DOMAIN CarriedData
                 THEN file'.data[k].scan_count = 0
                 ELSE IF out'.stage = "done" /\ ScannedAtOrAbove(k, OI_EXEC_THRESHOLD)
                 THEN /\ file'.data[k].scan_count = file.data[k].scan_count + 1
                      /\ file'.data[k].first_exec_time =
                            IF file.data[k].scan_count = 0
                            THEN Now ELSE file.data[k].first_exec_time
                 ELSE IF out'.stage = "done" /\ ScannedAtOrAbove(k, -100)
                 THEN file'.data[k].scan_count = 0
                 ELSE /\ file'.data[k].scan_count = file.data[k].scan_count
                      /\ file'.data[k].first_exec_time = file.data[k].first_exec_time]_vars

\* An entry EXECUTED by the run before the last one was seen above the
\* threshold again and counts two runs from the time of the first; another
\* entry that had left NONE was seen below the threshold and is cleared.
C22_Witness ==
    /\ out.stage = "done"
    /\ \E k \in DOMAIN file.data :
          /\ file.data[k].state = "EXECUTED"
          /\ k \notin DOMAIN out.scored
          /\ file.data[k].scan_count = 2
          /\ file.data[k].first_exec_time = (clock - 2) * ScanGap
    /\ \E j \in DOMAIN file.data :
          /\ file.data[j].state # "NONE"
          /\ HasRow(out, j)
          /\ RowOf(out, j).oi < 6 * file.data[j].baseline_oi
          /\ file.data[j].scan_count = 0
          /\ file.data[j].first_exec_time = None

\* The minimum score the claim gives for a mode at d days to expiry.
AdaptedMinimum(d, mode) ==
    CASE d >= 2 -> CONVICTION_THRESHOLDS(mode)
      [] d = 1 -> 100
      [] d = 0 -> 120

\* The premium tolerance the claim gives for a spot against the day open.
ToleranceFor(day_open, spot) ==
    IF RatGE(RatAbs(PctChange(spot, day_open)), <<1, 2>>) THEN 15
    ELSE IF RatGE(RatAbs(PctChange(spot, day_open)), <<3, 10>>) THEN 10
    ELSE 8

\* Key k is EXECUTED after the step and was not before it.
BecomesExecuted(k) ==
    /\ k \in DOMAIN file'.data
    /\ file'.data[k].state = "EXECUTED"
    /\ k \in DOMAIN CarriedData => file.data[k].state # "EXECUTED"

\* C23: an entry becomes EXECUTED only in a run that ran its loops to their
\* end and in which the entry, carried from an earlier run of the day, showed
\* OI at or above OI_EXEC_THRESHOLD and a premium change within the run's
\* tolerance (8, 10 or 15 by the spot move from the day open), covering was
\* confirmed, and the score was at or above the run's minimum: the mode's
\* base score at 2 or more days to expiry, 100 at 1 day, 120 at 0 days.
C23_ExecutedConditions ==
    [][IsScanStep =>
          \A k \in DOMAIN file'.data :
              BecomesExecuted(k) =>
                  /\ out'.stage = "done"
                  /\ k \in DOMAIN CarriedData
                  /\ ScannedAtOrAbove(k, OI_EXEC_THRESHOLD)
                  /\ out'.tolerance = ToleranceFor(file'.day_open, out'.inp.spot)
                  /\ RatLE(CarriedLtpPct(k), Int2Rat(out'.tolerance))
                  /\ k \in DOMAIN out'.covering
                  /\ out'.covering[k]
                  /\ out'.min_score =
                        AdaptedMinimum(out'.inp.days_to_expiry, out'.inp.mode)
                  /\ out'.scored[k] >= out'.min_score]_vars

\* On expiry day in STRICT mode the last run set an entry to EXECUTED with a
\* score of exactly 120, the premium flat and the opposite side covering.
C23_Witness ==
    /\ out.stage = "done"
    /\ out.inp.days_to_expiry = 0
    /\ out.inp.mode = "STRICT"
    /\ out.min_score = 120
    /\ \E k \in DOMAIN out.scored :
          /\ out.scored[k] = 120
          /\ out.covering[k]
          /\ file.data[k].state = "EXECUTED"
          /\ Occurs(out.sent, k)
          /\ RowOf(out, k).ltp = file.data[k].baseline_ltp

-----------------------------------------------------------------------------
(* PROPERTIES OF THE SCORE COMPONENTS *)

\* The spot-momentum points the claim gives: the thesis of a CE buildup is a
\* falling spot, that of a PE buildup a rising one.
SpotPtsByAlignment(opt, day_open, spot) ==
    IF day_open = None \/ day_open = 0 THEN 0
    ELSE LET move == PctChange(spot, day_open)
             along == IF opt = "CE" THEN <<-move[1], move[2]>> ELSE move
         IN  IF RatGE(along, <<3, 10>>) THEN 20
             ELSE IF RatGT(along, Int2Rat(0)) THEN 10
             ELSE IF along[1] = 0 THEN 0
             ELSE -20

\* C24: the spot-momentum component is +20 for a move of 0.3% or more along
\* the thesis, +10 for a smaller move along it, 0 when the spot has not moved
\* from the day open (or no day open is known), and -20 only when the spot
\* has moved against the thesis.
C24_SpotMomentum ==
    probe.scored =>
        probe.res.components.spot_pts =
            SpotPtsByAlignment(probe.inp.opt_type, probe.inp.day_open, probe.inp.spot)

\* The premium-behaviour points the claim gives under a tolerance.
PremiumPtsByTolerance(ltp_change_pct, tolerance) ==
    IF RatLE(ltp_change_pct, Int2Rat(-5)) THEN 15
    ELSE IF RatLE(ltp_change_pct, Int2Rat(0)) THEN 10
    ELSE IF RatLE(ltp_change_pct, Int2Rat(5)) THEN 5
    ELSE IF RatLE(ltp_change_pct, Int2Rat(tolerance)) THEN 0
    ELSE -10

\* C25: the premium-behaviour component is taken under the tolerance the run
\* computes from the spot and the day open the scorer is called with (8, 10
\* or 15): a premium change above 5% and within that tolerance scores 0, and
\* an input that passes the candidate test of that run never scores -10.
C25_PremiumUsesScanTolerance ==
    probe.scored =>
        \E tolerance \in {PremiumTolerance(probe.inp.day_open, probe.inp.spot)} :
            /\ probe.res.components.premium_behavior_pts =
                  PremiumPtsByTolerance(probe.inp.ltp_change_pct, tolerance)
            /\ RatLE(probe.inp.ltp_change_pct, Int2Rat(tolerance)) =>
                  probe.res.components.premium_behavior_pts # -10

-----------------------------------------------------------------------------
(* PROPERTIES OF THE ALERT LOOP *)

\* The place of key k in a sequence of keys that holds it once.
PlaceOf(keys, k) == CHOOSE i \in DOMAIN keys : keys[i] = k

\* daily_signals and signals_today after the first n candidates of the
\* step's run, in the order they were offered, given the limiter before.
RECURSIVE LimiterAfter(_, _)
LimiterAfter(b, n) ==
    IF n = 0 THEN b
    ELSE Bind(LimiterAfter(b, n - 1), LAMBDA before :
            IF Occurs(out'.sent, out'.buildups[n])
            THEN record_signal(before,
                               [strike |-> out'.buildups[n][2],
                                opt_type |-> out'.buildups[n][1],
                                conviction_score |-> out'.scored[out'.buildups[n]],
                                tier |-> Tier(out'.scored[out'.buildups[n]])],
                               Now)
            ELSE before)

\* C26: the candidates a run collected on both sides, each once, are offered
\* in non-increasing order of score; each is sent or skipped by the limiter
\* as it stands after the sends before it in the same run; so every
\* candidate sent stands before every candidate skipped, none is sent while
\* one of higher score is skipped, and while the day's count is below the cap
\* the next candidate in order is sent.
C26_OfferedByScore ==
    [][(IsScanStep /\ out'.stage = "done") =>
          /\ \A k \in DOMAIN out'.scored :
                Occurs(out'.buildups, k) <=>
                    (out'.covering[k] /\ out'.scored[k] >= out'.min_score)
          /\ \A i, j \in DOMAIN out'.buildups :
                /\ out'.buildups[i] = out'.buildups[j] => i = j
                /\ i < j => out'.scored[out'.buildups[i]] >= out'.scored[out'.buildups[j]]
          /\ \A i \in DOMAIN out'.buildups :
                /\ Occurs(out'.sent, out'.buildups[i]) # Occurs(out'.skipped, out'.buildups[i])
                /\ Occurs(out'.sent, out'.buildups[i]) <=>
                      should_send_signal(LimiterAfter(CarriedBaseline, i - 1),
                                         out'.scored[out'.buildups[i]]).send
                /\ LimiterAfter(CarriedBaseline, i - 1).signals_today < MAX_SIGNALS_PER_DAY
                      => Occurs(out'.sent, out'.buildups[i])
          /\ \A s \in DOMAIN out'.sent : \A t \in DOMAIN out'.skipped :
                /\ PlaceOf(out'.buildups, out'.sent[s]) < PlaceOf(out'.buildups, out'.skipped[t])
                /\ out'.scored[out'.sent[s]] >= out'.scored[out'.skipped[t]]
          /\ file'.signals_today = CarriedBaseline.signals_today + Len(out'.sent)
          /\ file'.daily_signals =
                LimiterAfter(CarriedBaseline, Len(out'.buildups)).daily_signals]_vars

\* With two signals sent earlier in the day, the last run collected two
\* candidates of different score: the higher one took the last slot under
\* the cap and the lower one was skipped.
C26_Witness ==
    /\ out.stage = "done"
    /\ Len(out.buildups) = 2
    /\ out.sent = <<out.buildups[1]>>
    /\ out.skipped = <<out.buildups[2]>>
    /\ out.scored[out.buildups[1]] > out.scored[out.buildups[2]]
    /\ file.signals_today = MAX_SIGNALS_PER_DAY

\* The entries of a ledger that are EXECUTED.
ExecutedKeys(data) == {k \in DOMAIN data : data[k].state = "EXECUTED"}

\* C27: every candidate a run offers to the limiter is EXECUTED when the run
\* ends, whether it was sent or skipped; an entry that was EXECUTED before a
\* run is not offered by it; and after every step signals_today is at most
\* the number of EXECUTED entries.
C27_ExecutedBeforeLimiter ==
    [][/\ IsScanStep =>
             /\ \A i \in DOMAIN out'.buildups :
                   /\ out'.buildups[i] \in ExecutedKeys(file'.data)
                   /\ out'.buildups[i] \notin ExecutedKeys(CarriedData)
             /\ \A i \in DOMAIN out'.skipped : Occurs(out'.buildups, out'.skipped[i])
             /\ \A i \in DOMAIN out'.sent : Occurs(out'.buildups, out'.sent[i])
             /\ ExecutedKeys(CarriedData) \subseteq ExecutedKeys(file'.data)
       /\ file'.signals_today <= Cardinality(ExecutedKeys(file'.data))]_vars

\* The limiter skipped a candidate in the last run: its entry is EXECUTED,
\* and the day counts fewer signals than EXECUTED entries.
C27_Witness ==
    /\ out.stage = "done"
    /\ \E i \in DOMAIN out.skipped :
          /\ file.data[out.skipped[i]].state = "EXECUTED"
          /\ ~Occurs(out.sent, out.skipped[i])
    /\ file.signals_today = MAX_SIGNALS_PER_DAY
    /\ file.signals_today < Cardinality(ExecutedKeys(file.data))

-----------------------------------------------------------------------------
(* PROPERTIES OF ONE STRIKE IN ONE SCAN *)

\* Key k is collected as a signal in the step's run.
Collected(k) == Occurs(out'.buildups, k)

\* C28: in one run at most one side of a strike becomes EXECUTED, at most
\* one side of a strike is collected as a signal, and so the run never sends
\* or holds back signals for both sides of one strike.
C28_OneSidePerStrike ==
    [][IsScanStep =>
          \A k \in DOMAIN file'.data :
              /\ BecomesExecuted(k) => ~BecomesExecuted(OppKey(k))
              /\ Collected(k) => ~Collected(OppKey(k))
              /\ Occurs(out'.sent, k) =>
                    /\ ~Occurs(out'.sent, OppKey(k))
                    /\ ~Occurs(out'.skipped, OppKey(k))]_vars

\* Both sides of a strike are EXECUTED, and the last run executed only one
\* of them: the other one, with a row in the run's snapshot, had been
\* executed by an earlier run.
C28_Witness ==
    /\ out.stage = "done"
    /\ \E k \in DOMAIN file.data :
          /\ Occurs(out.buildups, k)
          /\ Occurs(out.sent, k)
          /\ file.data[k].state = "EXECUTED"
          /\ OppKey(k) \in DOMAIN file.data
          /\ file.data[OppKey(k)].state = "EXECUTED"
          /\ HasRow(out, OppKey(k))
          /\ ~Occurs(out.buildups, OppKey(k))

-----------------------------------------------------------------------------
(* PROPERTIES OF THE ADAPTED MINIMUM SCORE *)

\* C29: the minimum score of a run is never below the base score of the
\* run's mode, and never below the minimum the same mode has one day further
\* from expiry.
C29_MinimumNeverLoosens ==
    out.stage = "done" =>
        /\ out.min_score >= CONVICTION_THRESHOLDS(out.inp.mode)
        /\ out.min_score >=
              MinConvictionScore(out.inp.days_to_expiry + 1, out.inp.mode)

====
